---- MODULE Spec2Model ----
(***************************************************************************)
(* Chunk executor of aptos-core (execution/executor/src/chunk_executor.rs) *)
(* as a state machine: the facade ChunkExecutor with its optional inner    *)
(* instance, the two-stage ChunkCommitQueue, the ledger store it commits   *)
(* to, and one action per facade operation.                                *)
(*                                                                         *)
(* Option<T> is a sequence of length 0 (None) or 1 (Some(x)).              *)
(* A state snapshot (StateDelta) is represented by its next_version(), an  *)
(* accumulator by its num_leaves().                                        *)
(***************************************************************************)
EXTENDS Naturals, Sequences, FiniteSets

VARIABLES
    db,       \* the ledger store: the persisted transactions, db[v+1] at version v
    inner,    \* ChunkExecutor::inner, Option of the inner instance's commit queue
    last,     \* the facade call in progress and what it returns, or Idle
    pending,  \* the chunks this inner instance accepted and has not committed
    lifecycle, \* "Uninitialized", "Active" or "Finished"
    threads,  \* per caller thread: the call it is in, its position and locals
    lock,     \* the holder of the commit queue's Mutex, None when it is free
    profiler, \* the GasProfiler<G> under profiling, None when there is none
    observed  \* the last call on the profiler: what it got, what it returned

vars == <<db, inner, last, pending, lifecycle, threads, lock, profiler,
         observed>>

(* ------------------------------ bounds --------------------------------- *)

\* Highest version a staged state may reach.
MaxVersion == 4

\* Longest chunk handed to an enqueue call.
MaxChunkLen == 3

\* The lengths of the transaction lists handed to replay.
ReplayLens == {0, 1, 2}

\* Longest transaction list handed to replay when its steps are recorded.
MaxReplayLen == 3

\* Highest first version of a chunk handed to enqueue by concurrent callers.
MaxConcVersion == 2

\* Positions the two stages of the commit queue hold together.
MaxStaged == 2

\* The version of the caller's verified target ledger info.
TargetVersion == 3

(* ------------------------------ values --------------------------------- *)

None == <<>>

Some(x) == <<x>>

IsSome(o) == Len(o) = 1

Versions == 0..MaxVersion

(* A transaction is identified by the version it has in the ledger the     *)
(* caller syncs to: Txns(v, n) are the transactions of [v, v+n).           *)
Txns(v, n) == [i \in 1..n |-> v + i - 1]

(* What the external collaborators will answer for a chunk: the proof     *)
(* verifier, the executor / output applier, the checkpoint calculator.    *)
Fates == {"ok", "bad_proof", "exec_fail", "discard", "retry",
          "info_mismatch", "fork", "bad_li"}

\* TransactionListWithProof / TransactionOutputListWithProof.
ChunkInput(n, first, fate) ==
    [transactions |-> Txns(IF first = None THEN 0 ELSE first[1], n),
     first_transaction_version |-> first,
     fate |-> fate]

ChunkInputs ==
    {ChunkInput(n, first, fate) :
        n \in 0..MaxChunkLen,
        first \in {None} \cup {Some(v) : v \in Versions},
        fate \in Fates}

(* ------------------------ ChunkCommitQueue ----------------------------- *)

Ok(q) == [res |-> "ok", q |-> q]

Err(q, msg) == [res |-> msg, q |-> q]

new_from_db(store) ==
    [persisted_state |-> Len(store),
     latest_state |-> Len(store),
     latest_txn_accumulator |-> Len(store),
     to_commit |-> <<>>,
     to_update_ledger |-> <<>>]

latest_state(q) == q.latest_state

expect_latest_view(q) ==
    IF q.to_update_ledger # <<>>
    THEN [res |-> "Pending chunk to update_ledger", view |-> None]
    ELSE [res |-> "ok",
          view |-> Some([state |-> q.latest_state,
                         txn_accumulator |-> q.latest_txn_accumulator])]

enqueue_for_ledger_update(q, chunk) ==
    Ok([q EXCEPT !.latest_state = chunk.result_state,
                 !.to_update_ledger = Append(@, Some(chunk))])

next_chunk_to_update_ledger(q) ==
    IF q.to_update_ledger = <<>>
    THEN [res |-> "No chunk to update ledger.", q |-> q, chunk |-> None,
          parent_accumulator |-> q.latest_txn_accumulator]
    ELSE IF Head(q.to_update_ledger) = None
    THEN [res |-> "Next chunk to update ledger has already been processed.",
          q |-> q, chunk |-> None,
          parent_accumulator |-> q.latest_txn_accumulator]
    ELSE [res |-> "ok",
          q |-> [q EXCEPT !.to_update_ledger[1] = None],
          chunk |-> Head(q.to_update_ledger),
          parent_accumulator |-> q.latest_txn_accumulator]

save_ledger_update_output(q, chunk) ==
    IF q.to_update_ledger = <<>>
    THEN Err(q, "to_update_ledger is empty.")
    ELSE IF Head(q.to_update_ledger) # None
    THEN Err(q, "Head of to_update_ledger has not been processed.")
    ELSE Ok([q EXCEPT !.latest_txn_accumulator = chunk.transaction_accumulator,
                      !.to_update_ledger = Tail(@),
                      !.to_commit = Append(@, Some(chunk))])

next_chunk_to_commit(q) ==
    IF q.to_commit = <<>>
    THEN [res |-> "No chunk to commit.", q |-> q, chunk |-> None,
          persisted_state |-> q.persisted_state]
    ELSE IF Head(q.to_commit) = None
    THEN [res |-> "Next chunk to commit has already been processed.",
          q |-> q, chunk |-> None, persisted_state |-> q.persisted_state]
    ELSE [res |-> "ok",
          q |-> [q EXCEPT !.to_commit[1] = None],
          chunk |-> Head(q.to_commit),
          persisted_state |-> q.persisted_state]

enqueue_chunk_to_commit_directly(q, chunk) ==
    IF q.to_update_ledger # <<>>
    THEN Err(q, "Mixed usage of different modes.")
    ELSE Ok([q EXCEPT !.latest_state = chunk.result_state,
                      !.latest_txn_accumulator = chunk.transaction_accumulator,
                      !.to_commit = Append(@, Some(chunk))])

dequeue_committed(q, new_persisted_state) ==
    IF q.to_commit = <<>>
    THEN Err(q, "to_commit is empty.")
    ELSE IF Head(q.to_commit) # None
    THEN Err(q, "Head of to_commit has not been processed.")
    ELSE Ok([q EXCEPT !.to_commit = Tail(@),
                      !.persisted_state = new_persisted_state])

(* ------------------------ external collaborators ----------------------- *)

\* TransactionInfoListWithProof::verify_extends_ledger: Ok(num_overlap) or Err.
verify_extends_ledger(proof, num_txns_in_ledger, first_version) ==
    IF first_version > num_txns_in_ledger
    THEN [res |-> "Transaction list too new.", num_overlap |-> 0]
    ELSE IF num_txns_in_ledger - first_version > proof.num_infos
    THEN [res |-> "ok", num_overlap |-> proof.num_infos]
    ELSE IF proof.fork \/ proof.first_version # first_version
    THEN [res |-> "Fork happens", num_overlap |-> 0]
    ELSE [res |-> "ok", num_overlap |-> num_txns_in_ledger - first_version]

(* ApplyChunkOutput::calculate_state_checkpoint: the transactions are      *)
(* sorted by status; only the kept ones advance the result state.          *)
calculate_state_checkpoint(transactions, fate, parent_state) ==
    LET dropped == IF fate \in {"discard", "retry"} THEN 1 ELSE 0
        kept == SubSeq(transactions, 1, Len(transactions) - dropped)
    IN  [result_state |-> parent_state + Len(kept),
         to_commit |-> kept,
         to_discard |-> IF fate = "discard" THEN 1 ELSE 0,
         to_retry |-> IF fate = "retry" THEN 1 ELSE 0]

\* DbWriter::save_transactions: appends the chunk at first_version.
save_transactions(store, txns_to_commit, first_version) ==
    IF first_version # Len(store)
    THEN [res |-> "store: unexpected first version", db |-> store]
    ELSE [res |-> "ok", db |-> store \o txns_to_commit]

(* LedgerUpdateOutput::maybe_select_chunk_ending_ledger_info: the chunk    *)
(* carries the target ledger info when it ends at the target's version.    *)
maybe_select_chunk_ending_ledger_info(num_leaves, verified_target_li) ==
    verified_target_li + 1 = num_leaves

(* ------------------------ ChunkExecutorInner --------------------------- *)

\* A panic (expect, assert_eq!, unwrap): the call does not return.
Panic(q) == [res |-> "panic", q |-> q]

ChunkExecutorInner_new(store, db_ok) ==
    IF db_ok THEN Some(new_from_db(store)) ELSE None

(* check_chunk_by_execution with the continuity check made against the     *)
(* committed version instead of the latest staged one.                     *)
check_chunk_against_committed(q, c) ==
    IF Len(c.transactions) = 0 THEN "Empty transaction list!"
    ELSE IF c.first_transaction_version = None
    THEN "Non-empty chunk with first_version == None."
    ELSE IF c.first_transaction_version[1] # q.persisted_state
    THEN "Unexpected chunk."
    ELSE IF c.fate = "bad_proof" THEN "proof verification failed"
    ELSE "ok"

\* The checks of enqueue_chunk_by_execution before anything is executed.
check_chunk_by_execution(q, c) ==
    IF Len(c.transactions) = 0 THEN "Empty transaction list!"
    ELSE IF c.first_transaction_version = None
    THEN "Non-empty chunk with first_version == None."
    ELSE
    LET first_version_in_request == c.first_transaction_version[1]
        parent_state == latest_state(q)
    IN  IF first_version_in_request # parent_state THEN "Unexpected chunk."
        ELSE IF c.fate = "bad_proof" THEN "proof verification failed"
        ELSE "ok"

(* Execution and state checkpoint of enqueue_chunk_by_execution: the       *)
(* record for stage one, or the error of the executor or the calculator.   *)
execute_chunk(q, c) ==
    IF c.fate = "exec_fail" THEN [res |-> "execution failed", chunk |-> None]
    ELSE
    LET cp == calculate_state_checkpoint(c.transactions, c.fate,
                                         latest_state(q))
    IN  [res |-> "ok",
         chunk |-> Some([result_state |-> cp.result_state,
                         to_commit |-> cp.to_commit,
                         to_discard |-> cp.to_discard,
                         to_retry |-> cp.to_retry,
                         verified_target_li |-> TargetVersion,
                         txn_infos_with_proof |->
                             [first_version |-> c.first_transaction_version[1],
                              num_infos |-> Len(c.transactions),
                              fork |-> c.fate = "fork",
                              mismatch |-> c.fate = "info_mismatch",
                              bad_li |-> c.fate = "bad_li"]])]

Inner_enqueue_chunk_by_execution(q, c) ==
    LET v == check_chunk_by_execution(q, c) IN
    IF v # "ok" THEN Err(q, v)
    ELSE LET x == execute_chunk(q, c) IN
         IF x.res # "ok" THEN Err(q, x.res)
         ELSE enqueue_for_ledger_update(q, x.chunk[1])

\* The checks of enqueue_chunk_by_transaction_outputs.
check_chunk_by_transaction_outputs(q, c) ==
    IF Len(c.transactions) = 0 THEN "Empty transaction list!"
    ELSE IF c.first_transaction_version = None
    THEN "Non-empty chunk with first_version == None."
    ELSE
    LET first_version_in_request == c.first_transaction_version[1]
        parent_state == latest_state(q)
    IN  IF first_version_in_request # parent_state THEN "Unexpected chunk."
        ELSE IF c.fate = "bad_proof" THEN "proof verification failed"
        ELSE "ok"

\* apply_chunk with the failure of the applier not propagated.
apply_chunk_failure_ignored(q, c) ==
    LET cp == calculate_state_checkpoint(c.transactions, "ok", latest_state(q))
    IN  [res |-> "ok",
         chunk |-> Some([result_state |-> cp.result_state,
                         to_commit |-> cp.to_commit,
                         to_discard |-> cp.to_discard,
                         to_retry |-> cp.to_retry,
                         verified_target_li |-> TargetVersion,
                         txn_infos_with_proof |->
                             [first_version |-> c.first_transaction_version[1],
                              num_infos |-> Len(c.transactions),
                              fork |-> c.fate = "fork",
                              mismatch |-> c.fate = "info_mismatch",
                              bad_li |-> c.fate = "bad_li"]])]

\* Applying the outputs and the state checkpoint of the outputs path.
apply_chunk(q, c) ==
    IF c.fate = "exec_fail" THEN [res |-> "apply failed", chunk |-> None]
    ELSE
    LET cp == calculate_state_checkpoint(c.transactions, c.fate,
                                         latest_state(q))
    IN  [res |-> "ok",
         chunk |-> Some([result_state |-> cp.result_state,
                         to_commit |-> cp.to_commit,
                         to_discard |-> cp.to_discard,
                         to_retry |-> cp.to_retry,
                         verified_target_li |-> TargetVersion,
                         txn_infos_with_proof |->
                             [first_version |-> c.first_transaction_version[1],
                              num_infos |-> Len(c.transactions),
                              fork |-> c.fate = "fork",
                              mismatch |-> c.fate = "info_mismatch",
                              bad_li |-> c.fate = "bad_li"]])]

Inner_enqueue_chunk_by_transaction_outputs(q, c) ==
    LET v == check_chunk_by_transaction_outputs(q, c) IN
    IF v # "ok" THEN Err(q, v)
    ELSE LET x == apply_chunk(q, c) IN
         IF x.res # "ok" THEN Err(q, x.res)
         ELSE enqueue_for_ledger_update(q, x.chunk[1])

\* finalize_chunk without the checks of the discard and retry sets.
finalize_chunk_discard_unchecked(chunk, parent_accumulator) ==
    LET first_version == parent_accumulator
        v == verify_extends_ledger(chunk.txn_infos_with_proof, first_version,
                                   first_version)
    IN  IF v.res # "ok" THEN v.res
        ELSE IF v.num_overlap # 0 THEN "panic"
        ELSE IF chunk.txn_infos_with_proof.mismatch
        THEN "transaction infos do not match"
        ELSE IF chunk.txn_infos_with_proof.bad_li
        THEN "ledger info does not match"
        ELSE "ok"

(* The checks of update_ledger on the record it took and the accumulator   *)
(* it was given: "ok", an error, or "panic" (assert_eq!).                  *)
finalize_chunk(chunk, parent_accumulator) ==
    LET first_version == parent_accumulator
        v == verify_extends_ledger(chunk.txn_infos_with_proof, first_version,
                                   first_version)
    IN  IF v.res # "ok" THEN v.res
        ELSE IF v.num_overlap # 0 THEN "panic"
        ELSE IF chunk.to_discard # 0 THEN "Unexpected discard."
        ELSE IF chunk.to_retry # 0 THEN "Unexpected retry."
        ELSE IF chunk.txn_infos_with_proof.mismatch
        THEN "transaction infos do not match"
        ELSE IF chunk.txn_infos_with_proof.bad_li
        THEN "ledger info does not match"
        ELSE "ok"

\* executed_chunk_of with the accumulator of the parent left as it was.
executed_chunk_of_stale_accumulator(chunk, parent_accumulator) ==
    [result_state |-> chunk.result_state,
     ledger_info |->
         maybe_select_chunk_ending_ledger_info(
             parent_accumulator + Len(chunk.to_commit),
             chunk.verified_target_li),
     to_commit |-> chunk.to_commit,
     transaction_accumulator |-> parent_accumulator]

\* The ExecutedChunk update_ledger builds from a record that passed.
executed_chunk_of(chunk, parent_accumulator) ==
    [result_state |-> chunk.result_state,
     ledger_info |->
         maybe_select_chunk_ending_ledger_info(
             parent_accumulator + Len(chunk.to_commit),
             chunk.verified_target_li),
     to_commit |-> chunk.to_commit,
     transaction_accumulator |-> parent_accumulator + Len(chunk.to_commit)]

Inner_update_ledger(q) ==
    LET n == next_chunk_to_update_ledger(q) IN
    IF n.res # "ok" THEN Err(n.q, n.res)
    ELSE
    LET chunk == n.chunk[1]
        parent_accumulator == n.parent_accumulator
        f == finalize_chunk(chunk, parent_accumulator)
    IN  IF f # "ok" THEN Err(n.q, f)
        ELSE save_ledger_update_output(
                 n.q, executed_chunk_of(chunk, parent_accumulator))

(* commit_chunk_impl handing dequeue_committed the persisted state it read *)
(* before the write instead of the chunk's result state.                   *)
commit_chunk_impl_stale_state(q, store, store_ok) ==
    LET n == next_chunk_to_commit(q) IN
    IF n.res # "ok"
    THEN [res |-> n.res, q |-> n.q, db |-> store, chunk |-> None]
    ELSE
    LET chunk == n.chunk[1]
        writes == chunk.ledger_info \/ chunk.to_commit # <<>>
        w == IF ~writes THEN [res |-> "ok", db |-> store]
             ELSE IF ~store_ok
             THEN [res |-> "Injected error in commit_chunk", db |-> store]
             ELSE save_transactions(store, chunk.to_commit, n.persisted_state)
    IN  IF w.res # "ok"
        THEN [res |-> w.res, q |-> n.q, db |-> w.db, chunk |-> None]
        ELSE LET d == dequeue_committed(n.q, n.persisted_state)
             IN  [res |-> d.res, q |-> d.q, db |-> w.db,
                  chunk |-> IF d.res = "ok" THEN Some(chunk) ELSE None]

\* write_chunk without the test of the chunk's transactions and ledger info.
write_chunk_unconditional(chunk, persisted_state, store, store_ok) ==
    IF ~store_ok
    THEN [res |-> "Injected error in commit_chunk", db |-> store]
    ELSE save_transactions(store, chunk.to_commit, persisted_state)

(* The store write of commit_chunk_impl: none for a chunk without          *)
(* transactions and ledger info, else the fail point and save_transactions.*)
write_chunk(chunk, persisted_state, store, store_ok) ==
    IF ~(chunk.ledger_info \/ chunk.to_commit # <<>>)
    THEN [res |-> "ok", db |-> store]
    ELSE IF ~store_ok
    THEN [res |-> "Injected error in commit_chunk", db |-> store]
    ELSE save_transactions(store, chunk.to_commit, persisted_state)

commit_chunk_impl(q, store, store_ok) ==
    LET n == next_chunk_to_commit(q) IN
    IF n.res # "ok"
    THEN [res |-> n.res, q |-> n.q, db |-> store, chunk |-> None]
    ELSE
    LET chunk == n.chunk[1]
        w == write_chunk(chunk, n.persisted_state, store, store_ok)
    IN  IF w.res # "ok"
        THEN [res |-> w.res, q |-> n.q, db |-> w.db, chunk |-> None]
        ELSE LET d == dequeue_committed(n.q, chunk.result_state)
             IN  [res |-> d.res, q |-> d.q, db |-> w.db,
                  chunk |-> IF d.res = "ok" THEN Some(chunk) ELSE None]

\* ExecutedChunk::into_chunk_commit_notification
into_chunk_commit_notification(chunk) == chunk.to_commit

Inner_commit_chunk(q, store, store_ok) ==
    LET r == commit_chunk_impl(q, store, store_ok)
    IN  [res |-> r.res, q |-> r.q, db |-> r.db, chunk |-> r.chunk,
         ret |-> IF r.res = "ok"
                 THEN Some(into_chunk_commit_notification(r.chunk[1]))
                 ELSE None]

(* ------------------------------ replay --------------------------------- *)

(* One element of the four parallel input lists: the transaction, whether  *)
(* its recorded events hold a reconfiguration event, and whether the       *)
(* recorded info / write set / events equal what re-execution produces.    *)
ReplayItem(txn, reconfig, matches) ==
    [txn |-> txn, reconfig |-> reconfig, matches |-> matches]

\* The input lists for the n versions from begin on.
ReplayInputs(begin, n) ==
    {[i \in 1..n |-> ReplayItem(begin + i - 1, f[i][1], f[i][2])] :
        f \in [1..n -> BOOLEAN \X BOOLEAN]}

\* VerifyExecutionMode: NoVerify, or Verify { txns_to_skip, lazy_quit }.
VerifyModes ==
    {[verify |-> FALSE, txns_to_skip |-> {}, lazy_quit |-> FALSE]} \cup
    [verify : {TRUE},
     txns_to_skip : {{}, {1}, {2}},
     lazy_quit : BOOLEAN]

should_verify(mode) == mode.verify

txns_to_skip(mode) == IF mode.verify THEN mode.txns_to_skip ELSE {}

is_lazy_quit(mode) == mode.verify /\ mode.lazy_quit

\* The versions of S in [lo, hi), ascending (BTreeSet::range).
RECURSIVE range(_, _, _)
range(S, lo, hi) ==
    IF lo >= hi THEN <<>>
    ELSE (IF lo \in S THEN <<lo>> ELSE <<>>) \o range(S, lo + 1, hi)

\* find_epochs closing an epoch at the reconfiguration version, not after it.
RECURSIVE find_epochs_closing_early(_, _, _, _, _, _)
find_epochs_closing_early(items, i, version, chunk_end, epoch_begin, epochs) ==
    IF i > Len(items) \/ version >= chunk_end
    THEN IF epoch_begin < chunk_end
         THEN Append(epochs, <<epoch_begin, chunk_end>>)
         ELSE epochs
    ELSE IF items[i].reconfig /\ epoch_begin < version
    THEN find_epochs_closing_early(items, i + 1, version + 1, chunk_end,
                                   version,
                                   Append(epochs, <<epoch_begin, version>>))
    ELSE find_epochs_closing_early(items, i + 1, version + 1, chunk_end,
                                   epoch_begin, epochs)

(* The loop of replay that finds the epoch boundaries: i is the position   *)
(* of the multizip over (chunk_begin..chunk_end, event_vecs).              *)
RECURSIVE find_epochs(_, _, _, _, _, _)
find_epochs(items, i, version, chunk_end, epoch_begin, epochs) ==
    IF i > Len(items) \/ version >= chunk_end
    THEN IF epoch_begin < chunk_end
         THEN Append(epochs, <<epoch_begin, chunk_end>>)
         ELSE epochs
    ELSE IF items[i].reconfig
    THEN find_epochs(items, i + 1, version + 1, chunk_end, version + 1,
                     Append(epochs, <<epoch_begin, version + 1>>))
    ELSE find_epochs(items, i + 1, version + 1, chunk_end, epoch_begin, epochs)

\* remove_and_apply replacing the accumulated chunk instead of combining.
remove_and_apply_replacing(rs, begin_version, end_version) ==
    LET num_txns == end_version - begin_version IN
    IF num_txns > Len(rs.items) THEN [rs EXCEPT !.res = "panic"]
    ELSE
    LET txns == [i \in 1..num_txns |-> rs.items[i].txn]
        executed_batch ==
            [result_state |-> rs.latest_view.state + num_txns,
             ledger_info |-> FALSE,
             to_commit |-> txns,
             transaction_accumulator |->
                 rs.latest_view.txn_accumulator + num_txns]
    IN  [rs EXCEPT
            !.items = SubSeq(@, num_txns + 1, Len(@)),
            !.executed_chunk = Some(executed_batch),
            !.latest_view = [state |-> executed_batch.result_state,
                             txn_accumulator |->
                                 executed_batch.transaction_accumulator],
            !.applied = Append(@, <<begin_version, end_version>>)]

(* The running state of one replay call: the accumulating executed chunk,  *)
(* the latest view, the rest of the input lists, the mode's seen_error.    *)
remove_and_apply(rs, begin_version, end_version) ==
    LET num_txns == end_version - begin_version IN
    IF num_txns > Len(rs.items) THEN [rs EXCEPT !.res = "panic"]
    ELSE
    LET txns == [i \in 1..num_txns |-> rs.items[i].txn]
        executed_batch ==
            [result_state |-> rs.latest_view.state + num_txns,
             ledger_info |-> FALSE,
             to_commit |-> txns,
             transaction_accumulator |->
                 rs.latest_view.txn_accumulator + num_txns]
        combined ==
            IF rs.executed_chunk = None THEN executed_batch
            ELSE [executed_batch EXCEPT
                     !.to_commit = rs.executed_chunk[1].to_commit \o txns]
    IN  [rs EXCEPT
            !.items = SubSeq(@, num_txns + 1, Len(@)),
            !.executed_chunk = Some(combined),
            !.latest_view = [state |-> combined.result_state,
                             txn_accumulator |->
                                 combined.transaction_accumulator],
            !.applied = Append(@, <<begin_version, end_version>>)]

\* The first position of the batch whose re-executed output does not match.
RECURSIVE first_mismatch(_, _, _)
first_mismatch(items, i, n) ==
    IF i > n \/ i > Len(items) THEN 0
    ELSE IF ~items[i].matches THEN i
    ELSE first_mismatch(items, i + 1, n)

\* verify_execution that never quits on a mismatch, whatever the mode.
verify_execution_never_quitting(rs, begin_version, end_version, mode) ==
    LET n == end_version - begin_version
        m == first_mismatch(rs.items, 1, n)
        version == begin_version + m - 1
        zipped == IF n < Len(rs.items) THEN n ELSE Len(rs.items)
    IN  IF m = 0
        THEN [res |-> "ok", next_begin |-> end_version, seen_error |-> FALSE,
              compared |-> Txns(begin_version, zipped)]
        ELSE [res |-> "ok", next_begin |-> version + 1, seen_error |-> TRUE,
              compared |-> Txns(begin_version, m)]

\* verify_execution that gives up the rest of the batch after a mismatch.
verify_execution_skipping_rest(rs, begin_version, end_version, mode) ==
    LET n == end_version - begin_version
        m == first_mismatch(rs.items, 1, n)
        version == begin_version + m - 1
        zipped == IF n < Len(rs.items) THEN n ELSE Len(rs.items)
    IN  IF m = 0
        THEN [res |-> "ok", next_begin |-> end_version, seen_error |-> FALSE,
              compared |-> Txns(begin_version, zipped)]
        ELSE IF is_lazy_quit(mode)
        THEN [res |-> "ok", next_begin |-> end_version, seen_error |-> TRUE,
              compared |-> Txns(begin_version, m)]
        ELSE [res |-> "does not match", next_begin |-> begin_version,
              seen_error |-> FALSE, compared |-> Txns(begin_version, m)]

(* verify_execution: Ok(next_begin) or Err; compared lists the versions    *)
(* whose re-executed output was compared with the recorded one, seen_error *)
(* tells whether mark_seen_error was called.                               *)
verify_execution(rs, begin_version, end_version, mode) ==
    LET n == end_version - begin_version
        m == first_mismatch(rs.items, 1, n)
        version == begin_version + m - 1
        zipped == IF n < Len(rs.items) THEN n ELSE Len(rs.items)
    IN  IF m = 0
        THEN [res |-> "ok", next_begin |-> end_version, seen_error |-> FALSE,
              compared |-> Txns(begin_version, zipped)]
        ELSE IF is_lazy_quit(mode)
        THEN [res |-> "ok", next_begin |-> version + 1, seen_error |-> TRUE,
              compared |-> Txns(begin_version, m)]
        ELSE [res |-> "does not match", next_begin |-> begin_version,
              seen_error |-> FALSE, compared |-> Txns(begin_version, m)]

(* The while loop of remove_and_replay_epoch; batch_ends is the iterator   *)
(* as a list, k the number of elements already taken from it.              *)
RECURSIVE batch_loop(_, _, _, _, _, _, _)
batch_loop(rs, mode, batch_ends, k, batch_begin, batch_end, end_version) ==
    IF rs.res # "ok" \/ ~(batch_begin < end_version) THEN rs
    ELSE IF batch_begin = batch_end
    THEN LET a == remove_and_apply(rs, batch_begin, batch_begin + 1) IN
         IF a.res # "ok" THEN a
         ELSE IF k >= Len(batch_ends) THEN [a EXCEPT !.res = "panic"]
         ELSE batch_loop(a, mode, batch_ends, k + 1, batch_begin + 1,
                         batch_ends[k + 1], end_version)
    ELSE
    LET v == IF should_verify(mode)
             THEN verify_execution(rs, batch_begin, batch_end, mode)
             ELSE [res |-> "ok", next_begin |-> batch_end,
                   seen_error |-> FALSE, compared |-> <<>>]
        rv == [rs EXCEPT
                  !.res = v.res,
                  !.seen_error = @ \/ v.seen_error,
                  !.compared = @ \o v.compared,
                  !.marked = IF v.seen_error
                             THEN Append(@, v.next_begin - 1) ELSE @,
                  !.verified = IF should_verify(mode)
                               THEN Append(@, <<batch_begin, batch_end>>)
                               ELSE @]
    IN  IF v.res # "ok" THEN rv
        ELSE batch_loop(remove_and_apply(rv, batch_begin, v.next_begin), mode,
                        batch_ends, k, v.next_begin, batch_end, end_version)

\* remove_and_replay_epoch with a batch end at every version of the epoch.
remove_and_replay_epoch_every_version(rs, begin_version, end_version, mode) ==
    LET batch_ends == range(begin_version..end_version, begin_version,
                            end_version) \o <<end_version>>
    IN  batch_loop(rs, mode, batch_ends, 1, begin_version, batch_ends[1],
                   end_version)

(* remove_and_replay_epoch whose iterator of batch ends holds the end of   *)
(* the epoch only when no version of the epoch is to be skipped.           *)
remove_and_replay_epoch_unchained(rs, begin_version, end_version, mode) ==
    LET skips == range(txns_to_skip(mode), begin_version, end_version)
        batch_ends == IF skips = <<>> THEN <<end_version>> ELSE skips
    IN  batch_loop(rs, mode, batch_ends, 1, begin_version, batch_ends[1],
                   end_version)

\* remove_and_replay_epoch that does not split the epoch at the skip set.
remove_and_replay_epoch_unsplit(rs, begin_version, end_version, mode) ==
    LET batch_ends == <<end_version>>
    IN  batch_loop(rs, mode, batch_ends, 1, begin_version, batch_ends[1],
                   end_version)

remove_and_replay_epoch(rs, begin_version, end_version, mode) ==
    LET batch_ends == range(txns_to_skip(mode), begin_version, end_version)
                          \o <<end_version>>
    IN  batch_loop(rs, mode, batch_ends, 1, begin_version, batch_ends[1],
                   end_version)

RECURSIVE replay_epochs(_, _, _, _)
replay_epochs(rs, epochs, i, mode) ==
    IF i > Len(epochs) \/ rs.res # "ok" THEN rs
    ELSE replay_epochs(
             remove_and_replay_epoch(rs, epochs[i][1], epochs[i][2], mode),
             epochs, i + 1, mode)

(* replay up to the push: the epochs found and the state the loop over    *)
(* the epochs ends in. applied, verified, compared and marked record the   *)
(* calls of remove_and_apply and verify_execution, the versions compared   *)
(* and the versions mark_seen_error was called at.                         *)
replay_run(latest_view, items, mode) ==
    LET chunk_begin == latest_view.txn_accumulator
        chunk_end == chunk_begin + Len(items)
        epochs == find_epochs(items, 1, chunk_begin, chunk_end, chunk_begin,
                              <<>>)
    IN  [chunk_begin |-> chunk_begin,
         epochs |-> epochs,
         rs |-> replay_epochs([res |-> "ok", executed_chunk |-> None,
                               latest_view |-> latest_view, items |-> items,
                               seen_error |-> FALSE, applied |-> <<>>,
                               verified |-> <<>>, compared |-> <<>>,
                               marked |-> <<>>],
                              epochs, 1, mode)]

Inner_replay(q, items, mode) ==
    LET e == expect_latest_view(q) IN
    IF e.res # "ok" THEN Err(q, e.res)
    ELSE
    LET rs == replay_run(e.view[1], items, mode).rs
    IN  IF rs.res # "ok" THEN Err(q, rs.res)
        ELSE IF rs.executed_chunk = None
        THEN Panic(q)
        ELSE enqueue_chunk_to_commit_directly(q, rs.executed_chunk[1])

(* ---------------------------- ChunkExecutor ---------------------------- *)
(* The facade. Each operator takes the slot (Option of the inner          *)
(* instance's commit queue) and the store and returns the call's result,   *)
(* the slot and the store after the call. db_ok: the store answers the     *)
(* read of new_from_db; store_ok: it accepts the write of commit.          *)

Call(res, slot, store, ret) ==
    [res |-> res, inner |-> slot, db |-> store, ret |-> ret]

\* reset that keeps an inner instance that exists.
reset_if_absent(slot, store, db_ok) ==
    LET n == ChunkExecutorInner_new(store, db_ok) IN
    IF slot # None THEN Call("ok", slot, store, None)
    ELSE IF n = None THEN Call("store read failed", slot, store, None)
    ELSE Call("ok", n, store, None)

reset(slot, store, db_ok) ==
    LET n == ChunkExecutorInner_new(store, db_ok) IN
    IF n = None THEN Call("store read failed", slot, store, None)
    ELSE Call("ok", n, store, None)

finish(slot, store) == Call("ok", None, store, None)

maybe_initialize(slot, store, db_ok) ==
    IF slot = None THEN reset(slot, store, db_ok)
    ELSE Call("ok", slot, store, None)

\* self.inner.read().as_ref().expect("not reset")
NotReset(slot, store) == Call("panic", slot, store, None)

enqueue_chunk_by_execution(slot, store, c, db_ok) ==
    LET mi == maybe_initialize(slot, store, db_ok) IN
    IF mi.res # "ok" THEN mi
    ELSE IF mi.inner = None THEN NotReset(mi.inner, store)
    ELSE LET r == Inner_enqueue_chunk_by_execution(mi.inner[1], c)
         IN  Call(r.res, Some(r.q), store, None)

enqueue_chunk_by_transaction_outputs(slot, store, c) ==
    IF slot = None THEN NotReset(slot, store)
    ELSE LET r == Inner_enqueue_chunk_by_transaction_outputs(slot[1], c)
         IN  Call(r.res, Some(r.q), store, None)

update_ledger(slot, store) ==
    IF slot = None THEN NotReset(slot, store)
    ELSE LET r == Inner_update_ledger(slot[1])
         IN  Call(r.res, Some(r.q), store, None)

commit_chunk(slot, store, store_ok) ==
    IF slot = None THEN NotReset(slot, store)
    ELSE LET r == Inner_commit_chunk(slot[1], store, store_ok)
         IN  Call(r.res, Some(r.q), r.db, r.ret)

replay(slot, store, items, mode, db_ok) ==
    LET mi == maybe_initialize(slot, store, db_ok) IN
    IF mi.res # "ok" THEN mi
    ELSE IF mi.inner = None THEN NotReset(mi.inner, store)
    ELSE LET r == Inner_replay(mi.inner[1], items, mode)
         IN  Call(r.res, Some(r.q), store, None)

\* TransactionReplayer::commit returns the executed chunk itself.
commit(slot, store, store_ok) ==
    IF slot = None THEN NotReset(slot, store)
    ELSE LET r == commit_chunk_impl(slot[1], store, store_ok)
         IN  Call(r.res, Some(r.q), r.db,
                  IF r.res = "ok" THEN Some(r.chunk[1].to_commit) ELSE None)

(* ------------------------------ actions -------------------------------- *)

\* A chunk accepted into the pipeline: its first version, its transactions.
Entry(first, txns) == [first |-> first, txns |-> txns]

\* No call is in progress: the caller makes the next one.
Idle == [op |-> "idle", res |-> "ok", ret |-> None, lost |-> 0]

Staged(q) == Len(q.to_update_ledger) + Len(q.to_commit)

(* What the call returns; lost counts the positions of the instance the    *)
(* call found that are not in the instance it leaves.                      *)
Returns(op, r) ==
    last' = [op |-> op, res |-> r.res, ret |-> r.ret,
             lost |-> IF op \in {"reset", "finish"} /\ inner # None
                         /\ r.inner # inner
                      THEN Staged(inner[1]) ELSE 0]

Lifecycle(op, r) ==
    lifecycle' = IF r.inner # None THEN "Active"
                 ELSE IF op = "finish" THEN "Finished"
                 ELSE lifecycle

\* The calls explored keep the versions and the queue within the bounds.
WithinBounds(r) ==
    r.res = "ok" =>
        /\ r.inner[1].latest_state <= MaxVersion
        /\ Staged(r.inner[1]) <= MaxStaged

\* The answers of the store to new_from_db that matter for a call.
DbAnswers == IF inner = None THEN BOOLEAN ELSE {TRUE}

\* pending after a call that may have created the inner instance.
Accept(r, entry) ==
    LET before == IF inner = None THEN <<>> ELSE pending
    IN  IF r.res = "ok" THEN Append(before, entry) ELSE before

\* The caller threads of the facade.
Threads == {1, 2}

\* A thread that is in no call.
ThreadIdle ==
    [pc |-> "idle", op |-> "none", res |-> "ok", c |-> None, chunk |-> None,
     parent |-> 0]

Init ==
    /\ db = <<0>>
    /\ inner = None
    /\ last = Idle
    /\ pending = <<>>
    /\ lifecycle = "Uninitialized"
    /\ threads = [t \in Threads |-> ThreadIdle]
    /\ lock = None
    /\ profiler = None
    /\ observed = None

EnqueueChunkByExecution ==
    /\ last = Idle
    /\ \E c \in ChunkInputs, db_ok \in DbAnswers :
        LET r == enqueue_chunk_by_execution(inner, db, c, db_ok) IN
        /\ WithinBounds(r)
        /\ inner' = r.inner
        /\ Returns("enqueue_chunk_by_execution", r)
        /\ Lifecycle("enqueue_chunk_by_execution", r)
        /\ pending' = Accept(r, Entry(c.first_transaction_version[1],
                                      c.transactions))
        /\ UNCHANGED <<db, threads, lock, profiler, observed>>

EnqueueChunkByTransactionOutputs ==
    /\ last = Idle
    /\ \E c \in ChunkInputs :
        LET r == enqueue_chunk_by_transaction_outputs(inner, db, c) IN
        /\ WithinBounds(r)
        /\ inner' = r.inner
        /\ Returns("enqueue_chunk_by_transaction_outputs", r)
        /\ Lifecycle("enqueue_chunk_by_transaction_outputs", r)
        /\ pending' = Accept(r, Entry(c.first_transaction_version[1],
                                      c.transactions))
        /\ UNCHANGED <<db, threads, lock, profiler, observed>>

UpdateLedger ==
    /\ last = Idle
    /\ LET r == update_ledger(inner, db) IN
        /\ inner' = r.inner
        /\ Returns("update_ledger", r)
        /\ Lifecycle("update_ledger", r)
        /\ UNCHANGED <<db, pending, threads, lock, profiler, observed>>

CommitChunk ==
    /\ last = Idle
    /\ \E store_ok \in BOOLEAN :
        LET r == commit_chunk(inner, db, store_ok) IN
        /\ inner' = r.inner
        /\ db' = r.db
        /\ Returns("commit_chunk", r)
        /\ Lifecycle("commit_chunk", r)
        /\ pending' = IF r.res = "ok" THEN Tail(pending) ELSE pending
        /\ UNCHANGED <<threads, lock, profiler, observed>>

Replay ==
    /\ last = Idle
    /\ \E n \in ReplayLens, mode \in VerifyModes, db_ok \in DbAnswers :
       \E items \in ReplayInputs(IF inner = None THEN Len(db)
                                 ELSE inner[1].latest_txn_accumulator, n) :
        LET r == replay(inner, db, items, mode, db_ok) IN
        /\ WithinBounds(r)
        /\ inner' = r.inner
        /\ Returns("replay", r)
        /\ Lifecycle("replay", r)
        /\ pending' = Accept(r, Entry(items[1].txn,
                                      [i \in 1..n |-> items[i].txn]))
        /\ UNCHANGED <<db, threads, lock, profiler, observed>>

Commit ==
    /\ last = Idle
    /\ \E store_ok \in BOOLEAN :
        LET r == commit(inner, db, store_ok) IN
        /\ inner' = r.inner
        /\ db' = r.db
        /\ Returns("commit", r)
        /\ Lifecycle("commit", r)
        /\ pending' = IF r.res = "ok" THEN Tail(pending) ELSE pending
        /\ UNCHANGED <<threads, lock, profiler, observed>>

Reset ==
    /\ last = Idle
    /\ \E db_ok \in BOOLEAN :
        LET r == reset(inner, db, db_ok) IN
        /\ inner' = r.inner
        /\ Returns("reset", r)
        /\ Lifecycle("reset", r)
        /\ pending' = IF r.res = "ok" THEN <<>> ELSE pending
        /\ UNCHANGED <<db, threads, lock, profiler, observed>>

Finish ==
    /\ last = Idle
    /\ LET r == finish(inner, db) IN
        /\ inner' = r.inner
        /\ Returns("finish", r)
        /\ Lifecycle("finish", r)
        /\ pending' = <<>>
        /\ UNCHANGED <<db, threads, lock, profiler, observed>>

\* The call returns to its caller; a call that panicked does not.
Return ==
    /\ last # Idle
    /\ last.res # "panic"
    /\ last' = Idle
    /\ UNCHANGED <<db, inner, pending, lifecycle, threads, lock,
                    profiler, observed>>

Next ==
    \/ EnqueueChunkByExecution
    \/ EnqueueChunkByTransactionOutputs
    \/ UpdateLedger
    \/ CommitChunk
    \/ Replay
    \/ Commit
    \/ Reset
    \/ Finish
    \/ Return

Spec == Init /\ [][Next]_vars

(* ------------------------- replay, step by step ------------------------ *)
(* The replayer on its own: replay calls with every verification mode and  *)
(* every skip set within the replayed range, followed by commits. The call *)
(* returns with the record of what it did.                                 *)

\* The verification modes for a replay of [begin, begin + n).
ReplayModes(begin, n) ==
    {[verify |-> FALSE, txns_to_skip |-> {}, lazy_quit |-> FALSE]} \cup
    [verify : {TRUE},
     txns_to_skip : SUBSET (begin..(begin + n - 1)),
     lazy_quit : BOOLEAN]

\* What a replay call did: its inputs, the queue it found, its steps.
ReplayRecord(q, items, mode, run) ==
    [before |-> q,
     items |-> items,
     mode |-> mode,
     chunk_begin |-> run.chunk_begin,
     epochs |-> run.epochs,
     applied |-> run.rs.applied,
     verified |-> run.rs.verified,
     compared |-> run.rs.compared,
     marked |-> run.rs.marked,
     seen_error |-> run.rs.seen_error,
     rest |-> run.rs.items,
     res |-> run.rs.res]

ReplayTraced ==
    /\ last = Idle
    /\ \E n \in 0..MaxReplayLen, db_ok \in DbAnswers :
        LET mi == maybe_initialize(inner, db, db_ok)
            begin == IF mi.inner = None THEN Len(db)
                     ELSE mi.inner[1].latest_txn_accumulator
        IN  \E items \in ReplayInputs(begin, n),
               mode \in ReplayModes(begin, n) :
            LET r == replay(inner, db, items, mode, db_ok)
                view == IF mi.inner = None THEN None
                        ELSE expect_latest_view(mi.inner[1]).view
            IN  /\ WithinBounds(r)
                /\ inner' = r.inner
                /\ last' = [op |-> "replay", res |-> r.res, lost |-> 0,
                            ret |-> IF view = None THEN None
                                    ELSE Some(ReplayRecord(
                                             mi.inner[1], items, mode,
                                             replay_run(view[1], items,
                                                        mode)))]
                /\ Lifecycle("replay", r)
                /\ pending' = Accept(r, Entry(begin,
                                              [i \in 1..n |-> items[i].txn]))
                /\ UNCHANGED <<db, threads, lock, profiler, observed>>

ReplayNext ==
    \/ ReplayTraced
    \/ Commit
    \/ Return

ReplaySpec == Init /\ [][ReplayNext]_vars

(* ------------------------- concurrent callers -------------------------- *)
(* The pipeline operations of ChunkExecutorInner called by several threads *)
(* on one active inner instance, one step per statement that takes the     *)
(* commit queue's Mutex or that computes between two such statements. A    *)
(* statement `self.commit_queue.lock().f(..)` locks, calls f and unlocks   *)
(* at its end: it is one step, enabled when the Mutex is free.             *)

\* The two enqueue operations.
Enqueues == {"enqueue_chunk_by_execution",
             "enqueue_chunk_by_transaction_outputs"}

\* The chunks concurrent callers hand to the enqueue operations.
ConcChunks ==
    {ChunkInput(n, first, fate) :
        n \in 0..1,
        first \in {Some(v) : v \in 1..MaxConcVersion},
        fate \in {"ok", "exec_fail"}}

\* Thread t is at pc in the call op, with its locals.
At(pc, op, c, chunk, parent) ==
    [pc |-> pc, op |-> op, res |-> "ok", c |-> c, chunk |-> chunk,
     parent |-> parent]

(* The call op of a thread has returned res (or panicked); c is the chunk  *)
(* of an enqueue that succeeded.                                           *)
Done(op, c, res) ==
    [pc |-> IF res = "panic" THEN "panicked" ELSE "done",
     op |-> op, res |-> res, c |-> c, chunk |-> None, parent |-> 0]

CanCall(t) == threads[t].pc \in {"idle", "done"}

ConcInit ==
    /\ db = <<0>>
    /\ inner = Some(new_from_db(db))
    /\ last = Idle
    /\ pending = <<>>
    /\ lifecycle = "Active"
    /\ threads = [t \in Threads |-> ThreadIdle]
    /\ lock = None
    /\ profiler = None
    /\ observed = None

(* A thread calls one of the enqueue operations; the calls explored are    *)
(* those made while the stages hold fewer than MaxStaged positions.        *)
EnqueueCall ==
    \E t \in Threads, op \in Enqueues, c \in ConcChunks :
        /\ CanCall(t)
        /\ Staged(inner[1]) < MaxStaged
        /\ threads' = [threads EXCEPT
                           ![t] = At("latest_state", op, Some(c), None, 0)]
        /\ UNCHANGED <<db, inner, last, pending, lifecycle, lock,
                       profiler, observed>>

(* The checks of the enqueue operations: the length, the first version,    *)
(* the read of latest_state() under the Mutex, the continuity check and    *)
(* the proof verification.                                                 *)
ReadLatestState ==
    \E t \in Threads :
        /\ threads[t].pc = "latest_state"
        /\ lock = None
        /\ LET th == threads[t]
               c == th.c[1]
               v == IF th.op = "enqueue_chunk_by_execution"
                    THEN check_chunk_by_execution(inner[1], c)
                    ELSE check_chunk_by_transaction_outputs(inner[1], c)
           IN  threads' = [threads EXCEPT
                   ![t] = IF v # "ok" THEN Done(th.op, None, v)
                          ELSE At("execute", th.op, th.c, None,
                                  latest_state(inner[1]))]
        /\ UNCHANGED <<db, inner, last, pending, lifecycle, lock,
                       profiler, observed>>

\* The execution of the transactions / the application of the outputs.
Execute ==
    \E t \in Threads :
        /\ threads[t].pc = "execute"
        /\ LET th == threads[t]
               x == IF th.op = "enqueue_chunk_by_execution"
                    THEN execute_chunk(inner[1], th.c[1])
                    ELSE apply_chunk(inner[1], th.c[1])
           IN  threads' = [threads EXCEPT
                   ![t] = IF x.res # "ok" THEN Done(th.op, None, x.res)
                          ELSE [th EXCEPT !.pc = "lock_latest_state"]]
        /\ UNCHANGED <<db, inner, last, pending, lifecycle, lock,
                       profiler, observed>>

(* The argument `&self.commit_queue.lock().latest_state()` of the call of  *)
(* calculate_state_checkpoint: the guard is a temporary of the statement   *)
(* and lives until the statement ends.                                     *)
LockLatestState ==
    \E t \in Threads :
        /\ threads[t].pc = "lock_latest_state"
        /\ lock = None
        /\ lock' = Some(t)
        /\ threads' = [threads EXCEPT
                           ![t].pc = "calculate_state_checkpoint"]
        /\ UNCHANGED <<db, inner, last, pending, lifecycle,
                       profiler, observed>>

(* calculate_state_checkpoint on the latest state read for it; the         *)
(* statement ends and drops the guard.                                     *)
CalculateStateCheckpoint ==
    \E t \in Threads :
        /\ threads[t].pc = "calculate_state_checkpoint"
        /\ LET th == threads[t]
               x == IF th.op = "enqueue_chunk_by_execution"
                    THEN execute_chunk(inner[1], th.c[1])
                    ELSE apply_chunk(inner[1], th.c[1])
           IN  threads' = [threads EXCEPT
                   ![t] = [th EXCEPT !.pc = "enqueue_for_ledger_update",
                                     !.chunk = x.chunk]]
        /\ lock' = IF lock = Some(t) THEN None ELSE lock
        /\ UNCHANGED <<db, inner, last, pending, lifecycle,
                       profiler, observed>>

EnqueueForLedgerUpdate ==
    \E t \in Threads :
        /\ threads[t].pc = "enqueue_for_ledger_update"
        /\ lock = None
        /\ LET th == threads[t]
               r == enqueue_for_ledger_update(inner[1], th.chunk[1])
           IN  /\ inner' = Some(r.q)
               /\ threads' = [threads EXCEPT ![t] = Done(th.op, th.c, r.res)]
        /\ UNCHANGED <<db, last, pending, lifecycle, lock,
                       profiler, observed>>

(* NextChunkToUpdateLedger handing the caller the accumulator of what is    *)
(* persisted instead of the latest one the queue holds.                    *)
NextChunkToUpdateLedgerStale ==
    \E t \in Threads :
        /\ CanCall(t)
        /\ lock = None
        /\ LET n == next_chunk_to_update_ledger(inner[1])
           IN  /\ inner' = Some(n.q)
               /\ threads' = [threads EXCEPT
                      ![t] = IF n.res # "ok"
                             THEN Done("update_ledger", None, n.res)
                             ELSE At("calculate_ledger_update",
                                     "update_ledger", None, n.chunk,
                                     inner[1].persisted_state)]
        /\ UNCHANGED <<db, last, pending, lifecycle, lock,
                       profiler, observed>>

\* update_ledger: next_chunk_to_update_ledger under the Mutex.
NextChunkToUpdateLedger ==
    \E t \in Threads :
        /\ CanCall(t)
        /\ lock = None
        /\ LET n == next_chunk_to_update_ledger(inner[1])
           IN  /\ inner' = Some(n.q)
               /\ threads' = [threads EXCEPT
                      ![t] = IF n.res # "ok"
                             THEN Done("update_ledger", None, n.res)
                             ELSE At("calculate_ledger_update",
                                     "update_ledger", None, n.chunk,
                                     n.parent_accumulator)]
        /\ UNCHANGED <<db, last, pending, lifecycle, lock,
                       profiler, observed>>

\* update_ledger: the checks and the ledger update, outside the Mutex.
CalculateLedgerUpdate ==
    \E t \in Threads :
        /\ threads[t].pc = "calculate_ledger_update"
        /\ LET th == threads[t]
               f == finalize_chunk(th.chunk[1], th.parent)
           IN  threads' = [threads EXCEPT
                   ![t] = IF f # "ok" THEN Done(th.op, None, f)
                          ELSE At("save_ledger_update_output", th.op, None,
                                  Some(executed_chunk_of(th.chunk[1],
                                                         th.parent)),
                                  th.parent)]
        /\ UNCHANGED <<db, inner, last, pending, lifecycle, lock,
                       profiler, observed>>

SaveLedgerUpdateOutput ==
    \E t \in Threads :
        /\ threads[t].pc = "save_ledger_update_output"
        /\ lock = None
        /\ LET th == threads[t]
               r == save_ledger_update_output(inner[1], th.chunk[1])
           IN  /\ inner' = Some(r.q)
               /\ threads' = [threads EXCEPT ![t] = Done(th.op, None, r.res)]
        /\ UNCHANGED <<db, last, pending, lifecycle, lock,
                       profiler, observed>>

\* commit_chunk: next_chunk_to_commit under the Mutex.
NextChunkToCommit ==
    \E t \in Threads :
        /\ CanCall(t)
        /\ lock = None
        /\ LET n == next_chunk_to_commit(inner[1])
           IN  /\ inner' = Some(n.q)
               /\ threads' = [threads EXCEPT
                      ![t] = IF n.res # "ok"
                             THEN Done("commit_chunk", None, n.res)
                             ELSE At("save_transactions", "commit_chunk",
                                     None, n.chunk, n.persisted_state)]
        /\ UNCHANGED <<db, last, pending, lifecycle, lock,
                       profiler, observed>>

\* commit_chunk: the fail point and the store write, outside the Mutex.
SaveTransactions ==
    \E t \in Threads, store_ok \in BOOLEAN :
        /\ threads[t].pc = "save_transactions"
        /\ LET th == threads[t]
               w == write_chunk(th.chunk[1], th.parent, db, store_ok)
           IN  /\ db' = w.db
               /\ threads' = [threads EXCEPT
                      ![t] = IF w.res # "ok" THEN Done(th.op, None, w.res)
                             ELSE [th EXCEPT !.pc = "dequeue_committed"]]
        /\ UNCHANGED <<inner, last, pending, lifecycle, lock,
                       profiler, observed>>

(* DequeueCommitted handing dequeue_committed the persisted state read     *)
(* before the write instead of the chunk's result state.                   *)
DequeueCommittedStale ==
    \E t \in Threads :
        /\ threads[t].pc = "dequeue_committed"
        /\ lock = None
        /\ LET th == threads[t]
               d == dequeue_committed(inner[1], th.parent)
           IN  /\ inner' = Some(d.q)
               /\ threads' = [threads EXCEPT ![t] = Done(th.op, None, d.res)]
        /\ UNCHANGED <<db, last, pending, lifecycle, lock,
                       profiler, observed>>

\* commit_chunk: dequeue_committed under the Mutex, after the write.
DequeueCommitted ==
    \E t \in Threads :
        /\ threads[t].pc = "dequeue_committed"
        /\ lock = None
        /\ LET th == threads[t]
               d == dequeue_committed(inner[1], th.chunk[1].result_state)
           IN  /\ inner' = Some(d.q)
               /\ threads' = [threads EXCEPT ![t] = Done(th.op, None, d.res)]
        /\ UNCHANGED <<db, last, pending, lifecycle, lock,
                       profiler, observed>>

ConcNext ==
    \/ EnqueueCall
    \/ ReadLatestState
    \/ Execute
    \/ LockLatestState
    \/ CalculateStateCheckpoint
    \/ EnqueueForLedgerUpdate
    \/ NextChunkToUpdateLedger
    \/ CalculateLedgerUpdate
    \/ SaveLedgerUpdateOutput
    \/ NextChunkToCommit
    \/ SaveTransactions
    \/ DequeueCommitted

ConcSpec == ConcInit /\ [][ConcNext]_vars

(* ---------------------- concurrent facade callers ---------------------- *)
(* The facade called by several threads: the RwLock of the inner-instance  *)
(* slot. `self.inner.read()` in the tail expression of an operation is     *)
(* held until the inner operation returns; the guard of the condition of   *)
(* maybe_initialize is dropped when the condition has been evaluated. In   *)
(* `*self.inner.write() = Some(ChunkExecutorInner::new(..)?)` the value is *)
(* evaluated before the place: the store is read before the write lock is  *)
(* taken. The inner operation itself is one step here.                     *)

\* The operations that call maybe_initialize first.
Initializing == {"enqueue_chunk_by_execution", "replay"}

\* The arguments of the facade operations called concurrently.
FacadeArgs(op) ==
    IF op \in Enqueues
    THEN {Some(ChunkInput(1, Some(v), "ok")) : v \in 1..MaxConcVersion}
    ELSE IF op = "replay"
    THEN {Some(<<>>)} \cup
         {Some(<<ReplayItem(v, FALSE, TRUE)>>) : v \in 1..MaxConcVersion}
    ELSE {None}

\* The threads that hold the RwLock of the slot in shared mode.
Readers == {t \in Threads : threads[t].pc = "operate"}

\* The inner operation of the facade operation op on the instance q.
inner_operation(op, q, store, arg, store_ok) ==
    LET r == IF op = "enqueue_chunk_by_execution"
             THEN Inner_enqueue_chunk_by_execution(q, arg[1])
             ELSE IF op = "enqueue_chunk_by_transaction_outputs"
             THEN Inner_enqueue_chunk_by_transaction_outputs(q, arg[1])
             ELSE IF op = "update_ledger" THEN Inner_update_ledger(q)
             ELSE IF op = "replay"
             THEN Inner_replay(q, arg[1], [verify |-> FALSE,
                                           txns_to_skip |-> {},
                                           lazy_quit |-> FALSE])
             ELSE commit_chunk_impl(q, store, store_ok)
    IN  [res |-> r.res, q |-> r.q,
         db |-> IF op \in {"commit_chunk", "commit"} THEN r.db ELSE store]

\* A thread calls a facade operation.
FacadeCall ==
    \E t \in Threads,
       op \in Enqueues \cup {"update_ledger", "commit_chunk", "replay",
                             "commit", "reset", "finish"} :
    \E arg \in FacadeArgs(op) :
        /\ CanCall(t)
        /\ threads' = [threads EXCEPT
               ![t] = At(IF op \in Initializing THEN "maybe_initialize"
                         ELSE IF op = "reset" THEN "new"
                         ELSE IF op = "finish" THEN "write"
                         ELSE "read",
                         op, arg, None, 0)]
        /\ UNCHANGED <<db, inner, last, pending, lifecycle, lock,
                       profiler, observed>>

\* maybe_initialize: `if self.inner.read().is_none()`, the guard dropped.
MaybeInitialize ==
    \E t \in Threads :
        /\ threads[t].pc = "maybe_initialize"
        /\ threads' = [threads EXCEPT
               ![t].pc = IF inner = None THEN "new" ELSE "read"]
        /\ UNCHANGED <<db, inner, last, pending, lifecycle, lock,
                       profiler, observed>>

\* reset: ChunkExecutorInner::new(self.db.clone())?, no lock held.
NewInner ==
    \E t \in Threads, db_ok \in BOOLEAN :
        /\ threads[t].pc = "new"
        /\ LET th == threads[t]
               n == ChunkExecutorInner_new(db, db_ok)
           IN  threads' = [threads EXCEPT
                   ![t] = IF n = None
                          THEN Done(th.op, None, "store read failed")
                          ELSE At("write", th.op, th.c, n, 0)]
        /\ UNCHANGED <<db, inner, last, pending, lifecycle, lock,
                       profiler, observed>>

(* reset and finish: `*self.inner.write() = ..`, exclusive; the lazily     *)
(* initializing operation goes on to its read of the slot.                 *)
WriteInner ==
    \E t \in Threads :
        /\ threads[t].pc = "write"
        /\ Readers = {}
        /\ LET th == threads[t]
           IN  /\ inner' = IF th.op = "finish" THEN None ELSE th.chunk
               /\ lifecycle' = IF th.op = "finish" THEN "Finished"
                               ELSE "Active"
               /\ threads' = [threads EXCEPT
                      ![t] = IF th.op \in Initializing
                             THEN At("read", th.op, th.c, None, 0)
                             ELSE Done(th.op, None, "ok")]
        /\ UNCHANGED <<db, last, pending, lock, profiler, observed>>

\* self.inner.read().as_ref().expect("not reset")
ReadInner ==
    \E t \in Threads :
        /\ threads[t].pc = "read"
        /\ threads' = [threads EXCEPT
               ![t] = IF inner = None
                      THEN Done(threads[t].op, None, "panic")
                      ELSE [threads[t] EXCEPT !.pc = "operate"]]
        /\ UNCHANGED <<db, inner, last, pending, lifecycle, lock,
                       profiler, observed>>

\* The inner operation; when it returns the read guard is dropped.
Operate ==
    \E t \in Threads, store_ok \in BOOLEAN :
        /\ threads[t].pc = "operate"
        /\ LET th == threads[t]
               r == inner_operation(th.op, inner[1], db, th.c, store_ok)
           IN  /\ r.res = "ok" =>
                      /\ r.q.latest_state <= MaxConcVersion + 1
                      /\ Staged(r.q) <= MaxStaged
               /\ inner' = Some(r.q)
               /\ db' = r.db
               /\ threads' = [threads EXCEPT
                      ![t] = Done(th.op,
                                  IF r.res = "ok" /\ th.op \in Enqueues
                                  THEN th.c ELSE None,
                                  r.res)]
        /\ UNCHANGED <<last, pending, lifecycle, lock, profiler, observed>>

FacadeNext ==
    \/ FacadeCall
    \/ MaybeInitialize
    \/ NewInner
    \/ WriteInner
    \/ ReadInner
    \/ Operate

FacadeSpec == Init /\ [][FacadeNext]_vars

(* ----------------------------- gas profiler ---------------------------- *)
(* GasProfiler<G>: the adapter around a gas meter G that records every     *)
(* charge with the cost the base meter assessed for it.                    *)

\* The calls on one profiler that are explored.
MaxCharges == 3

\* The balance of the base meter when the profiler is built.
MaxBalance == 2

\* The largest amount the base meter assesses for one call.
MaxAmount == 1

Amounts == 0..MaxAmount

(* The base meter G: its balance and the calls it received, oldest first.  *)
GasMeter(balance) == [balance |-> balance, received |-> <<>>]

(* A charge on the base meter: the amount it assesses for the call is      *)
(* taken off the balance; when the balance does not cover it the balance   *)
(* drops to zero and the call fails with OUT_OF_GAS.                       *)
base_charge(base, fn, arg) ==
    IF arg.amount <= base.balance
    THEN [base |-> [balance |-> base.balance - arg.amount,
                    received |-> Append(base.received, <<fn, arg>>)],
          res |-> "ok"]
    ELSE [base |-> [balance |-> 0,
                    received |-> Append(base.received, <<fn, arg>>)],
          res |-> "OUT_OF_GAS"]

\* FrameName and CallFrame of the log.
Script == [kind |-> "Script"]

Function(name, ty_args) ==
    [kind |-> "Function", name |-> name, ty_args |-> ty_args]

CallFrame(name) == [name |-> name, events |-> <<>>]

\* ExecutionGasEvent.
Loc(offset) == [type |-> "Loc", offset |-> offset]

Bytecode(op, cost) == [type |-> "Bytecode", op |-> op, cost |-> cost]

CallEvent(frame) == [type |-> "Call", frame |-> frame]

CallNative(name, cost) == [type |-> "CallNative", name |-> name, cost |-> cost]

LoadResource(cost) == [type |-> "LoadResource", cost |-> cost]

WriteTransient(cost, op_type) == [cost |-> cost, op_type |-> op_type]

new_script(base) ==
    [base |-> base,
     intrinsic_cost |-> None,
     total_exec_io |-> 0,
     frames |-> <<CallFrame(Script)>>,
     write_set_transient |-> <<>>,
     storage_fees |-> None]

new_function(base, func_name, ty_args) ==
    [base |-> base,
     intrinsic_cost |-> None,
     total_exec_io |-> 0,
     frames |-> <<CallFrame(Function(func_name, ty_args))>>,
     write_set_transient |-> <<>>,
     storage_fees |-> None]

\* What a call on the profiler leaves and returns; "panic" when it panics.
Returned(p, res) == [p |-> p, res |-> res]

Panicked(p) == [p |-> p, res |-> "panic"]

(* record_gas_event: the cost goes into total_exec_io, the event into the  *)
(* events of the last frame (active_event_stream unwraps it).              *)
record_gas_event(p, event) ==
    IF event.type = "Call" THEN Panicked(p)
    ELSE
    LET q == IF event.type = "Loc" THEN p
             ELSE [p EXCEPT !.total_exec_io = @ + event.cost]
    IN  IF q.frames = <<>> THEN Panicked(q)
        ELSE Returned([q EXCEPT !.frames[Len(q.frames)].events =
                                    Append(@, event)],
                      "ok")

record_bytecode(p, op, cost) == record_gas_event(p, Bytecode(op, cost))

record_offset(p, offset) == record_gas_event(p, Loc(offset))

(* delegate_charge: the call on the base meter and the drop of its         *)
(* balance; cost is None when the balance rose (checked_sub, expect).      *)
delegate_charge(p, fn, arg) ==
    LET old == p.base.balance
        r == base_charge(p.base, fn, arg)
        new == r.base.balance
    IN  [p |-> [p EXCEPT !.base = r.base],
         cost |-> IF new <= old THEN Some(old - new) ELSE None,
         res |-> r.res]

\* The charges the record_bytecode! block defines (a selection of them).
BytecodeCharges ==
    {"charge_pop", "charge_borrow_global", "charge_exists",
     "charge_move_from", "charge_move_to", "charge_vec_len",
     "charge_vec_borrow"}

\* The opcode expression the record_bytecode! block gives each charge.
opcode(fn, arg) ==
    CASE fn = "charge_pop" -> "POP"
      [] fn = "charge_borrow_global" ->
             IF ~arg.is_mut /\ ~arg.is_generic THEN "IMM_BORROW_GLOBAL"
             ELSE IF ~arg.is_mut /\ arg.is_generic
             THEN "IMM_BORROW_GLOBAL_GENERIC"
             ELSE IF arg.is_mut /\ ~arg.is_generic THEN "MUT_BORROW_GLOBAL"
             ELSE "MUT_BORROW_GLOBAL_GENERIC"
      [] fn = "charge_exists" ->
             IF arg.is_generic THEN "EXISTS" ELSE "EXISTS_GENERIC"
      [] fn = "charge_move_from" ->
             IF arg.is_generic THEN "MOVE_FROM" ELSE "MOVE_FROM_GENERIC"
      [] fn = "charge_move_to" ->
             IF arg.is_generic THEN "MOVE_TO" ELSE "MOVE_TO_GENERIC"
      [] fn = "charge_vec_len" -> "VEC_LEN"
      [] fn = "charge_vec_borrow" -> "VEC_IMM_BORROW"

\* One function of the record_bytecode! block.
charge_bytecode(p, fn, arg) ==
    LET d == delegate_charge(p, fn, arg) IN
    IF d.cost = None THEN Panicked(d.p)
    ELSE LET r == record_bytecode(d.p, opcode(fn, arg), d.cost[1])
         IN  IF r.res = "panic" THEN r ELSE Returned(r.p, d.res)

\* The frames without the last one, and the last one.
Popped(frames) == SubSeq(frames, 1, Len(frames) - 1)

Top(frames) == frames[Len(frames)]

charge_native_function(p, arg) ==
    LET d == delegate_charge(p, "charge_native_function", arg) IN
    IF d.cost = None \/ d.p.frames = <<>> THEN Panicked(d.p)
    ELSE
    LET cur == Top(d.p.frames)
        q == [d.p EXCEPT !.frames = Popped(@)]
    IN  IF cur.name.kind = "Script" THEN Panicked(q)
        ELSE LET r == record_gas_event(q, CallNative(cur.name, d.cost[1]))
             IN  IF r.res = "panic" THEN r ELSE Returned(r.p, d.res)

\* charge_br_false and charge_br_true, fn the one called, op its opcode.
charge_br(p, fn, op, arg) ==
    LET d == delegate_charge(p, fn, arg) IN
    IF d.cost = None THEN Panicked(d.p)
    ELSE
    LET r == record_bytecode(d.p, op, d.cost[1]) IN
    IF r.res = "panic" THEN r
    ELSE IF arg.target_offset = None THEN Returned(r.p, d.res)
    ELSE LET o == record_offset(r.p, arg.target_offset[1])
         IN  IF o.res = "panic" THEN o ELSE Returned(o.p, d.res)

charge_br_false(p, arg) == charge_br(p, "charge_br_false", "BR_FALSE", arg)

charge_br_true(p, arg) == charge_br(p, "charge_br_true", "BR_TRUE", arg)

charge_branch(p, arg) ==
    LET d == delegate_charge(p, "charge_branch", arg) IN
    IF d.cost = None THEN Panicked(d.p)
    ELSE
    LET r == record_bytecode(d.p, "BRANCH", d.cost[1]) IN
    IF r.res = "panic" THEN r
    ELSE LET o == record_offset(r.p, arg.target_offset[1])
         IN  IF o.res = "panic" THEN o ELSE Returned(o.p, d.res)

\* SimpleInstruction::to_opcode, for the instructions explored.
SimpleInstructions == {"Ret", "Nop"}

to_opcode(instr) == IF instr = "Ret" THEN "RET" ELSE "NOP"

(* The last frame leaves the stack and becomes a Call event at the end of  *)
(* the events of the frame below it.                                       *)
fold_frame(frames) ==
    LET cur_frame == Top(frames)
        rest == Popped(frames)
    IN  [rest EXCEPT ![Len(rest)].events = Append(@, CallEvent(cur_frame))]

charge_simple_instr(p, arg) ==
    LET d == delegate_charge(p, "charge_simple_instr", arg) IN
    IF d.cost = None THEN Panicked(d.p)
    ELSE
    LET r == record_bytecode(d.p, to_opcode(arg.instr), d.cost[1]) IN
    IF r.res = "panic" THEN r
    ELSE IF arg.instr = "Ret" /\ Len(r.p.frames) > 1
    THEN Returned([r.p EXCEPT !.frames = fold_frame(@)], d.res)
    ELSE Returned(r.p, d.res)

\* charge_call and charge_call_generic, fn the one called, op its opcode.
charge_call_as(p, fn, op, ty_args, arg) ==
    LET d == delegate_charge(p, fn, arg) IN
    IF d.cost = None THEN Panicked(d.p)
    ELSE
    LET r == record_bytecode(d.p, op, d.cost[1]) IN
    IF r.res = "panic" THEN r
    ELSE Returned([r.p EXCEPT !.frames =
                       Append(@, CallFrame(Function(arg.func_name,
                                                    ty_args)))],
                  d.res)

charge_call(p, arg) == charge_call_as(p, "charge_call", "CALL", <<>>, arg)

charge_call_generic(p, arg) ==
    charge_call_as(p, "charge_call_generic", "CALL_GENERIC", arg.ty_args,
                   arg)

charge_load_resource(p, arg) ==
    LET d == delegate_charge(p, "charge_load_resource", arg) IN
    IF d.cost = None THEN Panicked(d.p)
    ELSE LET r == record_gas_event(d.p, LoadResource(d.cost[1]))
         IN  IF r.res = "panic" THEN r ELSE Returned(r.p, d.res)

\* The WriteOp variants.
WriteOps ==
    {"Creation", "CreationWithMetadata", "Modification",
     "ModificationWithMetadata", "Deletion", "DeletionWithMetadata"}

write_op_type(op) ==
    IF op \in {"Creation", "CreationWithMetadata"} THEN "Creation"
    ELSE IF op \in {"Modification", "ModificationWithMetadata"}
    THEN "Modification"
    ELSE "Deletion"

(* charge_io_gas_for_write and charge_io_gas_for_group_write, fn the one   *)
(* called; arg.op is the write op, of a group write its metadata op.       *)
charge_io_gas_for_write_as(p, fn, arg) ==
    LET d == delegate_charge(p, fn, arg) IN
    IF d.cost = None THEN Panicked(d.p)
    ELSE Returned([d.p EXCEPT
                       !.total_exec_io = @ + d.cost[1],
                       !.write_set_transient =
                           Append(@, WriteTransient(d.cost[1],
                                                    write_op_type(arg.op)))],
                  d.res)

charge_io_gas_for_write(p, arg) ==
    charge_io_gas_for_write_as(p, "charge_io_gas_for_write", arg)

charge_io_gas_for_group_write(p, arg) ==
    charge_io_gas_for_write_as(p, "charge_io_gas_for_group_write", arg)

charge_intrinsic_gas_for_transaction(p, arg) ==
    LET d == delegate_charge(p, "charge_intrinsic_gas_for_transaction", arg)
    IN  IF d.cost = None THEN Panicked(d.p)
        ELSE Returned([d.p EXCEPT !.intrinsic_cost = Some(d.cost[1]),
                                  !.total_exec_io = @ + d.cost[1]],
                      d.res)

\* The charges of the delegate_mut! blocks: the base meter's, nothing else.
Delegated == {"charge_storage_fee", "charge_drop_frame"}

delegate_mut(p, fn, arg) ==
    LET r == base_charge(p.base, fn, arg)
    IN  Returned([p EXCEPT !.base = r.base], r.res)

\* The loop of finish: every frame above the first is folded into its caller.
RECURSIVE fold_frames(_)
fold_frames(frames) ==
    IF Len(frames) > 1 THEN fold_frames(fold_frame(frames)) ELSE frames

(* finish: the TransactionGasLog, None when the pop of the last frame      *)
(* finds none.                                                             *)
profiler_finish(p) ==
    LET frames == fold_frames(p.frames) IN
    IF frames = <<>> THEN None
    ELSE Some([exec_io |->
                   [total |-> p.total_exec_io,
                    intrinsic_cost |-> IF p.intrinsic_cost = None THEN 0
                                       ELSE p.intrinsic_cost[1],
                    call_graph |-> Top(frames),
                    write_set_transient |-> p.write_set_transient],
               storage |-> IF p.storage_fees = None THEN 0
                           ELSE p.storage_fees[1]])

(* The arguments of a call on the profiler: the amount the base meter      *)
(* assesses for it and, of the call's own arguments, those the profiler    *)
(* looks at; a call leaves those it does not have at their default.        *)
Arg(amount) ==
    [amount |-> amount, is_mut |-> FALSE, is_generic |-> FALSE,
     instr |-> "", target_offset |-> None, func_name |-> "",
     ty_args |-> <<>>, op |-> ""]

CodeOffsets == {1}

Args(fn) ==
    CASE fn = "charge_borrow_global" ->
             {[Arg(a) EXCEPT !.is_mut = m, !.is_generic = g] :
                 a \in Amounts, m \in BOOLEAN, g \in BOOLEAN}
      [] fn \in {"charge_exists", "charge_move_from", "charge_move_to"} ->
             {[Arg(a) EXCEPT !.is_generic = g] :
                 a \in Amounts, g \in BOOLEAN}
      [] fn = "charge_vec_borrow" ->
             {[Arg(a) EXCEPT !.is_mut = m] : a \in Amounts, m \in BOOLEAN}
      [] fn \in {"charge_br_false", "charge_br_true"} ->
             {[Arg(a) EXCEPT !.target_offset = o] :
                 a \in Amounts,
                 o \in {None} \cup {Some(n) : n \in CodeOffsets}}
      [] fn = "charge_branch" ->
             {[Arg(a) EXCEPT !.target_offset = Some(n)] :
                 a \in Amounts, n \in CodeOffsets}
      [] fn = "charge_simple_instr" ->
             {[Arg(a) EXCEPT !.instr = i] :
                 a \in Amounts, i \in SimpleInstructions}
      [] fn = "charge_call" ->
             {[Arg(a) EXCEPT !.func_name = "f"] : a \in Amounts}
      [] fn = "charge_call_generic" ->
             {[Arg(a) EXCEPT !.func_name = "f", !.ty_args = <<"T">>] :
                 a \in Amounts}
      [] fn \in {"charge_io_gas_for_write",
                 "charge_io_gas_for_group_write"} ->
             {[Arg(a) EXCEPT !.op = o] :
                 a \in Amounts, o \in {"Creation", "DeletionWithMetadata"}}
      [] OTHER -> {Arg(a) : a \in Amounts}

\* The profiler takes calls: it is there and no call on it has panicked.
Profiling == profiler # None /\ observed.res # "panic"

CanCharge ==
    /\ Profiling
    /\ Len(profiler[1].base.received) < MaxCharges

(* The call fn(arg) on the profiler left r.p and returned r.res; the same  *)
(* call goes to a meter of the base's kind that has no profiler around it. *)
Charged(fn, arg, r) ==
    /\ profiler' = Some(r.p)
    /\ observed' = LET b == base_charge(observed.bare, fn, arg)
                   IN  [fn |-> fn, arg |-> arg, res |-> r.res,
                        bare |-> b.base, bare_res |-> b.res, log |-> None]
    /\ UNCHANGED <<db, inner, last, pending, lifecycle, threads, lock>>

ProfilerInit ==
    /\ db = <<0>>
    /\ inner = None
    /\ last = Idle
    /\ pending = <<>>
    /\ lifecycle = "Uninitialized"
    /\ threads = [t \in Threads |-> ThreadIdle]
    /\ lock = None
    /\ \E balance \in 1..MaxBalance :
           /\ profiler \in
                  {Some(new_script(GasMeter(balance))),
                   Some(new_function(GasMeter(balance), "main", <<>>))}
           /\ observed = [fn |-> "new", arg |-> Arg(0), res |-> "ok",
                          bare |-> GasMeter(balance), bare_res |-> "ok",
                          log |-> None]

ChargeBytecode ==
    /\ CanCharge
    /\ \E fn \in BytecodeCharges : \E arg \in Args(fn) :
           Charged(fn, arg, charge_bytecode(profiler[1], fn, arg))

ChargeNativeFunction ==
    /\ CanCharge
    /\ \E arg \in Args("charge_native_function") :
           Charged("charge_native_function", arg,
                   charge_native_function(profiler[1], arg))

ChargeBrFalse ==
    /\ CanCharge
    /\ \E arg \in Args("charge_br_false") :
           Charged("charge_br_false", arg, charge_br_false(profiler[1], arg))

ChargeBrTrue ==
    /\ CanCharge
    /\ \E arg \in Args("charge_br_true") :
           Charged("charge_br_true", arg, charge_br_true(profiler[1], arg))

ChargeBranch ==
    /\ CanCharge
    /\ \E arg \in Args("charge_branch") :
           Charged("charge_branch", arg, charge_branch(profiler[1], arg))

ChargeSimpleInstr ==
    /\ CanCharge
    /\ \E arg \in Args("charge_simple_instr") :
           Charged("charge_simple_instr", arg,
                   charge_simple_instr(profiler[1], arg))

ChargeCall ==
    /\ CanCharge
    /\ \E arg \in Args("charge_call") :
           Charged("charge_call", arg, charge_call(profiler[1], arg))

ChargeCallGeneric ==
    /\ CanCharge
    /\ \E arg \in Args("charge_call_generic") :
           Charged("charge_call_generic", arg,
                   charge_call_generic(profiler[1], arg))

ChargeLoadResource ==
    /\ CanCharge
    /\ \E arg \in Args("charge_load_resource") :
           Charged("charge_load_resource", arg,
                   charge_load_resource(profiler[1], arg))

ChargeIoGasForWrite ==
    /\ CanCharge
    /\ \E arg \in Args("charge_io_gas_for_write") :
           Charged("charge_io_gas_for_write", arg,
                   charge_io_gas_for_write(profiler[1], arg))

ChargeIoGasForGroupWrite ==
    /\ CanCharge
    /\ \E arg \in Args("charge_io_gas_for_group_write") :
           Charged("charge_io_gas_for_group_write", arg,
                   charge_io_gas_for_group_write(profiler[1], arg))

ChargeIntrinsicGasForTransaction ==
    /\ CanCharge
    /\ \E arg \in Args("charge_intrinsic_gas_for_transaction") :
           Charged("charge_intrinsic_gas_for_transaction", arg,
                   charge_intrinsic_gas_for_transaction(profiler[1], arg))

DelegateMut ==
    /\ CanCharge
    /\ \E fn \in Delegated : \E arg \in Args(fn) :
           Charged(fn, arg, delegate_mut(profiler[1], fn, arg))

\* finish takes the profiler and returns the log.
ProfilerFinish ==
    /\ Profiling
    /\ LET log == profiler_finish(profiler[1])
       IN  observed' = [observed EXCEPT
                            !.fn = "finish",
                            !.arg = Arg(0),
                            !.res = IF log = None THEN "panic" ELSE "ok",
                            !.log = log]
    /\ profiler' = None
    /\ UNCHANGED <<db, inner, last, pending, lifecycle, threads, lock>>

ProfilerNext ==
    \/ ChargeBytecode
    \/ ChargeNativeFunction
    \/ ChargeBrFalse
    \/ ChargeBrTrue
    \/ ChargeBranch
    \/ ChargeSimpleInstr
    \/ ChargeCall
    \/ ChargeCallGeneric
    \/ ChargeLoadResource
    \/ ChargeIoGasForWrite
    \/ ChargeIoGasForGroupWrite
    \/ ChargeIntrinsicGasForTransaction
    \/ DelegateMut
    \/ ProfilerFinish

ProfilerSpec == ProfilerInit /\ [][ProfilerNext]_vars

(* ------------------------------ claims --------------------------------- *)

Commits == {"commit_chunk", "commit"}

FacadeOps == Enqueues \cup Commits \cup {"update_ledger", "replay"}

\* The version range [first_version, result_state) of a chunk in the queue.
first_version_of(chunk) == chunk.result_state - Len(chunk.to_commit)

\* The chunks a stage holds, oldest first: its positions that are not vacated.
Held(stage) == SelectSeq(stage, LAMBDA slot : slot # None)

(* C1: successive successful commits return the accepted chunks in the     *)
(* order they were accepted, gap-free: a successful commit returns the     *)
(* transactions of the oldest chunk accepted and not yet committed, and    *)
(* that chunk starts at the next version after the chunk committed before  *)
(* it (the committed watermark, which is the store's next version).        *)
C1_CommitsInEnqueueOrder ==
    [][(last'.op \in Commits /\ last'.res = "ok") =>
          /\ pending # <<>>
          /\ last'.ret = Some(Head(pending).txns)
          /\ Head(pending).first = inner[1].persisted_state
          /\ Head(pending).first = Len(db)
          /\ db' = db \o Head(pending).txns]_vars

\* A second commit succeeded while a later chunk is still in the pipeline.
C1_Witness ==
    /\ last.op = "commit_chunk" /\ last.res = "ok"
    /\ Len(db) - Len(last.ret[1]) > 1
    /\ pending # <<>>

(* C2: in every state a call can be made in, on an existing queue, either  *)
(* enqueue call with a non-empty chunk                                     *)
(* whose first version differs from the queue's next version returns the   *)
(* validation error and leaves both stages, the latest version and the     *)
(* committed watermark as they were.                                       *)
C2_DiscontinuousChunkRejected ==
    (last = Idle /\ inner # None) =>
        \A c \in ChunkInputs :
            (/\ Len(c.transactions) > 0
             /\ c.first_transaction_version # None
             /\ c.first_transaction_version[1] # latest_state(inner[1]))
            => LET x == enqueue_chunk_by_execution(inner, db, c, TRUE)
                   o == enqueue_chunk_by_transaction_outputs(inner, db, c)
               IN  /\ x.res = "Unexpected chunk." /\ x.inner = inner
                   /\ o.res = "Unexpected chunk." /\ o.inner = inner

\* A chunk was rejected for its version while chunks were staged.
C2_Witness ==
    /\ last.op \in Enqueues /\ last.res = "Unexpected chunk."
    /\ inner # None
    /\ Staged(inner[1]) > 0
    /\ inner[1].latest_state # inner[1].persisted_state

\* The inputs of an enqueue call that make it fail before the push.
FailsBeforePush(c) ==
    \/ Len(c.transactions) = 0
    \/ c.first_transaction_version = None
    \/ c.fate \in {"bad_proof", "exec_fail"}

(* C3: in every state a call can be made in, an enqueue call whose input   *)
(* is empty, lacks the first version,                                      *)
(* fails proof verification or fails in execution / checkpoint calculation *)
(* returns an error and leaves the commit queue as it was.                 *)
C3_FailedEnqueuePushesNothing ==
    (last = Idle /\ inner # None) =>
        \A c \in ChunkInputs :
            FailsBeforePush(c)
            => LET x == enqueue_chunk_by_execution(inner, db, c, TRUE)
                   o == enqueue_chunk_by_transaction_outputs(inner, db, c)
               IN  /\ x.res \notin {"ok", "panic"} /\ x.inner = inner
                   /\ o.res \notin {"ok", "panic"} /\ o.inner = inner

\* An enqueue failed in execution / apply on a queue that holds a chunk.
C3_Witness ==
    /\ last.op \in Enqueues
    /\ last.res \in {"execution failed", "apply failed"}
    /\ inner # None
    /\ Staged(inner[1]) > 0

(* C4: when the store write of a commit fails, the committed watermark is  *)
(* not advanced and the chunk is still at the head of stage two.           *)
C4_ChunkStaysAfterStoreFailure ==
    [][(last'.op \in Commits /\ last'.res = "Injected error in commit_chunk")
          => /\ inner'[1].persisted_state = inner[1].persisted_state
             /\ inner'[1].to_commit = inner[1].to_commit
             /\ Head(inner'[1].to_commit) # None]_vars

(* C5: a successful commit_chunk removes the oldest stage-two chunk and    *)
(* nothing else, sets the committed watermark to the next version after    *)
(* that chunk, and returns exactly that chunk's transactions.              *)
C5_CommitChunkEffect ==
    [][(last'.op = "commit_chunk" /\ last'.res = "ok") =>
          LET q == inner[1]
              chunk == Head(q.to_commit)[1]
          IN  /\ q.to_commit # <<>> /\ Head(q.to_commit) # None
              /\ inner'[1].to_commit = Tail(q.to_commit)
              /\ inner'[1].to_update_ledger = q.to_update_ledger
              /\ inner'[1].persisted_state = chunk.result_state
              /\ inner'[1].persisted_state =
                     first_version_of(chunk) + Len(chunk.to_commit)
              /\ first_version_of(chunk) = q.persisted_state
              /\ last'.ret = Some(chunk.to_commit)]_vars

(* The scenario of a 3-transaction chunk at [1, 4): after enqueue,         *)
(* update_ledger and commit_chunk the result holds the 3 transactions and  *)
(* the watermark is 4.                                                     *)
C5_Witness ==
    /\ last.op = "commit_chunk" /\ last.res = "ok"
    /\ last.ret = Some(<<1, 2, 3>>)
    /\ inner[1].persisted_state = 4

(* C6: after finish() every facade call other than reset() returns an      *)
(* error result and leaves the facade Finished.                            *)
C6_FinishedRejectsCalls ==
    [][(lifecycle = "Finished" /\ last'.op \in FacadeOps) =>
          /\ last'.res \notin {"ok", "panic"}
          /\ inner' = None
          /\ lifecycle' = "Finished"]_vars

(* C7: each pipeline and replay operation called on a facade without an    *)
(* inner instance creates it from the store and runs on it, without        *)
(* aborting.                                                               *)
C7_CallsInitialize ==
    [][(lifecycle = "Uninitialized" /\ last'.op \in FacadeOps) =>
          /\ last'.res # "panic"
          /\ (last'.res # "store read failed" => inner' # None)]_vars

(* C8: a successful reset() leaves both stages empty and the latest        *)
(* version and the committed watermark at the store's next version, and    *)
(* changes nothing in the store.                                           *)
C8_ResetRebuildsFromStore ==
    [][(last'.op = "reset" /\ last'.res = "ok") =>
          /\ inner' # None
          /\ inner'[1].to_update_ledger = <<>>
          /\ inner'[1].to_commit = <<>>
          /\ inner'[1].latest_state = Len(db)
          /\ inner'[1].persisted_state = Len(db)
          /\ inner'[1].latest_txn_accumulator = Len(db)
          /\ db' = db]_vars

\* A reset dropped staged chunks after something had been committed.
C8_Witness ==
    /\ last.op = "reset" /\ last.res = "ok"
    /\ last.lost > 0
    /\ Len(db) > 1

(* C9: the chunks held in stage two and then in stage one are contiguous:  *)
(* the first starts at the committed watermark and each next one starts    *)
(* where its predecessor ends.                                             *)
C9_StagesContiguous ==
    inner # None =>
        LET q == inner[1]
            chunks == Held(q.to_commit) \o Held(q.to_update_ledger)
        IN  \A i \in 1..Len(chunks) :
                first_version_of(chunks[i][1]) =
                    IF i = 1 THEN q.persisted_state
                    ELSE chunks[i - 1][1].result_state

staged_last(q) == q.to_update_ledger[Len(q.to_update_ledger)][1]

\* The inputs the proof verifier and the executor / applier accept.
Acceptable(c) ==
    /\ Len(c.transactions) > 0
    /\ c.first_transaction_version # None
    /\ c.fate \notin {"bad_proof", "exec_fail"}

(* C11: right after a successful enqueue that staged a chunk [a, b) with   *)
(* a < b and before any other call, an enqueue (either path) of an         *)
(* acceptable chunk starting at b is accepted, and an enqueue of a         *)
(* non-empty chunk starting at a is rejected as unexpected: continuity is  *)
(* validated against the staged state, not the committed one.              *)
C11_ContinuityAgainstStaged ==
    (last.op \in Enqueues /\ last.res = "ok") =>
        LET a == staged_last(inner[1]).txn_infos_with_proof.first_version
            b == staged_last(inner[1]).result_state
        IN  a < b =>
            \A c \in ChunkInputs :
                (Len(c.transactions) > 0 /\ c.first_transaction_version # None)
                => LET x == enqueue_chunk_by_execution(inner, db, c, TRUE)
                       o == enqueue_chunk_by_transaction_outputs(inner, db, c)
                   IN  /\ (c.first_transaction_version[1] = b /\ Acceptable(c))
                           => x.res = "ok" /\ o.res = "ok"
                       /\ c.first_transaction_version[1] = a
                           => /\ x.res = "Unexpected chunk."
                              /\ o.res = "Unexpected chunk."

(* A chunk [a, b) was staged on a queue whose committed version is a and   *)
(* that has committed something before.                                    *)
C11_Witness ==
    /\ last.op \in Enqueues /\ last.res = "ok"
    /\ inner[1].persisted_state =
           staged_last(inner[1]).txn_infos_with_proof.first_version
    /\ inner[1].persisted_state < inner[1].latest_state
    /\ inner[1].persisted_state > 1

\* The errors of update_ledger that report a consistency violation.
ConsistencyViolations ==
    {"Unexpected discard.", "Unexpected retry.",
     "transaction infos do not match", "panic"}

(* C12: an update_ledger that fails on a consistency violation leaves the  *)
(* pipeline as it was: the record is still the oldest of stage one, stage  *)
(* two, the accumulator and the latest version are unchanged.              *)
C12_FailedUpdateLedgerKeepsState ==
    [][(last'.op = "update_ledger" /\ last'.res \in ConsistencyViolations
        /\ inner # None)
          => /\ last'.res # "panic"
             /\ inner' = inner]_vars

(* ------------------------- claims about replay ------------------------- *)

\* A replay call has returned with the record of what it did.
Traced == last.op = "replay" /\ last.ret # None

\* The versions [chunk_begin, chunk_end) of the replay call on record.
ReplayedVersions(t) == t.chunk_begin..(t.chunk_begin + Len(t.items) - 1)

item_at(t, v) == t.items[v - t.chunk_begin + 1]

\* The versions the mode says to skip.
Skipped(t) == IF t.mode.verify THEN t.mode.txns_to_skip ELSE {}

(* The versions that are re-executed when reached and whose output then    *)
(* differs from the recorded one.                                          *)
Mismatching(t) ==
    {v \in ReplayedVersions(t) : v \notin Skipped(t) /\ ~item_at(t, v).matches}

InSeq(x, seq) == \E i \in 1..Len(seq) : seq[i] = x

(* C13 as stated: when exactly one version V of [begin, end) carries a     *)
(* reconfiguration event, the epochs are [begin, V+1) and [V+1, end).      *)
C13_TwoEpochs ==
    Traced =>
        LET t == last.ret[1]
            end == t.chunk_begin + Len(t.items)
        IN  \A V \in ReplayedVersions(t) :
                {v \in ReplayedVersions(t) : item_at(t, v).reconfig} = {V}
                => t.epochs = <<<<t.chunk_begin, V + 1>>, <<V + 1, end>>>>

(* C13 amended: when exactly one version V of [begin, end) carries a       *)
(* reconfiguration event, the epochs are [begin, V+1) and [V+1, end) if    *)
(* V+1 < end, and the single epoch [begin, end) if V is the last version.  *)
C13_EpochsAtReconfiguration ==
    Traced =>
        LET t == last.ret[1]
            end == t.chunk_begin + Len(t.items)
        IN  \A V \in ReplayedVersions(t) :
                {v \in ReplayedVersions(t) : item_at(t, v).reconfig} = {V}
                => t.epochs = IF V + 1 < end
                              THEN <<<<t.chunk_begin, V + 1>>, <<V + 1, end>>>>
                              ELSE <<<<t.chunk_begin, end>>>>

\* Three versions replayed, the reconfiguration at the middle one.
C13_Witness ==
    /\ Traced
    /\ Len(last.ret[1].items) = 3
    /\ last.ret[1].chunk_begin > 1
    /\ ~last.ret[1].items[1].reconfig
    /\ last.ret[1].items[2].reconfig
    /\ ~last.ret[1].items[3].reconfig

C15_StrictFailsAtFirstMismatch ==
    (Traced /\ last.ret[1].mode.verify /\ ~last.ret[1].mode.lazy_quit
     /\ Mismatching(last.ret[1]) # {}) =>
        LET t == last.ret[1]
            v == CHOOSE x \in Mismatching(t) :
                     \A y \in Mismatching(t) : x <= y
        IN  /\ last.res = "does not match"
            /\ inner = Some(t.before)
            /\ t.compared # <<>>
            /\ t.compared[Len(t.compared)] = v
            /\ \A i \in 1..Len(t.compared) : t.compared[i] <= v
            /\ \A i \in 1..Len(t.applied) : t.applied[i][2] <= v
            /\ ~t.seen_error

(* A strict replay failed in its second epoch, after the first epoch was   *)
(* applied, on a queue that holds a chunk.                                 *)
C15_Witness ==
    /\ Traced /\ last.res = "does not match"
    /\ last.ret[1].applied # <<>>
    /\ Len(last.ret[1].epochs) >= 2
    /\ last.ret[1].before.to_commit # <<>>

pushed_last(q) == q.to_commit[Len(q.to_commit)][1]

(* C17: when every recorded output is what re-execution produces, replay   *)
(* in strict mode with an empty skip set succeeds, marks no error, and the *)
(* chunk it stages has the transactions and the result state that          *)
(* executing the transactions from the state the call found gives.         *)
C17_ReplayRoundTrip ==
    (Traced /\ last.ret[1].mode.verify /\ ~last.ret[1].mode.lazy_quit
     /\ last.ret[1].mode.txns_to_skip = {}
     /\ last.ret[1].items # <<>>
     /\ \A i \in 1..Len(last.ret[1].items) : last.ret[1].items[i].matches) =>
        LET t == last.ret[1]
            txns == Txns(t.chunk_begin, Len(t.items))
            executed == calculate_state_checkpoint(txns, "ok",
                                                   t.before.latest_state)
        IN  /\ last.res = "ok"
            /\ ~t.seen_error /\ t.marked = <<>>
            /\ t.compared = txns
            /\ pushed_last(inner[1]).to_commit = executed.to_commit
            /\ pushed_last(inner[1]).result_state = executed.result_state
            /\ inner[1].latest_state = executed.result_state

\* A strict round trip over three versions in two epochs.
C17_Witness ==
    /\ Traced /\ last.res = "ok"
    /\ last.ret[1].mode.verify /\ ~last.ret[1].mode.lazy_quit
    /\ last.ret[1].mode.txns_to_skip = {}
    /\ Len(last.ret[1].items) = 3
    /\ \A i \in 1..3 : last.ret[1].items[i].matches
    /\ Len(last.ret[1].epochs) = 2

(* C18: a successful replay of n >= 1 transactions from version b has      *)
(* applied the versions of [b, b+n) once each and in ascending order (the  *)
(* ranges of its remove_and_apply calls are non-empty and follow one       *)
(* another from b to b+n), has consumed its input lists, and has pushed    *)
(* one chunk covering [b, b+n) to stage two and nothing to stage one.      *)
C18_ReplayAppliesAll ==
    (Traced /\ last.res = "ok") =>
        LET t == last.ret[1]
            n == Len(t.items)
            b == t.chunk_begin
        IN  /\ n >= 1
            /\ t.applied # <<>>
            /\ t.applied[1][1] = b
            /\ t.applied[Len(t.applied)][2] = b + n
            /\ \A i \in 1..Len(t.applied) :
                   /\ t.applied[i][1] < t.applied[i][2]
                   /\ i > 1 => t.applied[i][1] = t.applied[i - 1][2]
            /\ t.rest = <<>>
            /\ inner[1].to_update_ledger = t.before.to_update_ledger
            /\ inner[1].to_update_ledger = <<>>
            /\ Len(inner[1].to_commit) = Len(t.before.to_commit) + 1
            /\ SubSeq(inner[1].to_commit, 1, Len(t.before.to_commit))
                   = t.before.to_commit
            /\ pushed_last(inner[1]).to_commit = Txns(b, n)
            /\ pushed_last(inner[1]).result_state = b + n
            /\ pushed_last(inner[1]).transaction_accumulator = b + n

(* A replay of two versions in two remove_and_apply calls, pushed behind   *)
(* a chunk that is still in stage two.                                     *)
C18_Witness ==
    /\ Traced /\ last.res = "ok"
    /\ Len(last.ret[1].items) = 2
    /\ Len(last.ret[1].applied) = 2
    /\ last.ret[1].before.to_commit # <<>>

(* --------------------- claims about concurrent callers ----------------- *)

\* The versions [first, first + n) the proof of a stage-one record covers.
proof_first(rec) == rec.txn_infos_with_proof.first_version

proof_end(rec) ==
    rec.txn_infos_with_proof.first_version + rec.txn_infos_with_proof.num_infos

\* Thread t has returned success from an enqueue of a chunk starting at v.
EnqueuedAt(t, v) ==
    /\ threads[t].pc = "done" /\ threads[t].res = "ok"
    /\ threads[t].op \in Enqueues
    /\ threads[t].c # None
    /\ threads[t].c[1].first_transaction_version = Some(v)

(* C19: with enqueue calls running on different threads, no two calls      *)
(* with chunks of the same first version both succeed, and the chunks      *)
(* held in stage one never start at the same version or overlap.           *)
C19_ConcurrentEnqueueNoOverlap ==
    /\ \A t, u \in Threads, v \in 1..MaxConcVersion :
           (t # u /\ EnqueuedAt(t, v)) => ~EnqueuedAt(u, v)
    /\ LET one == Held(inner[1].to_update_ledger)
       IN  \A i, j \in 1..Len(one) :
               i < j => proof_end(one[i][1]) <= proof_first(one[j][1])

\* What a thread does at these positions is execution, hashing or store I/O.
HeavyWork ==
    {"execute", "calculate_state_checkpoint", "calculate_ledger_update",
     "save_transactions"}

(* C20: a thread that holds the commit queue's Mutex is not executing      *)
(* transactions, calculating a state checkpoint or a ledger update, or     *)
(* writing to the store.                                                   *)
C20_NoHeavyWorkUnderLock ==
    \A t \in Threads : lock = Some(t) => threads[t].pc \notin HeavyWork

(* ------------------ claims about the lock of the slot ------------------ *)

(* Thread u is inside a pipeline/replay call and has looked at the slot:   *)
(* it is in the inner operation, or it has returned from maybe_initialize  *)
(* and is about to use the instance.                                       *)
InCall(u) ==
    /\ threads[u].op \in FacadeOps
    /\ \/ threads[u].pc = "operate"
       \/ threads[u].op \in Initializing /\ threads[u].pc = "read"

\* Thread t is between the start and the return of reset().
InReset(t) ==
    /\ threads[t].op = "reset"
    /\ threads[t].pc \notin {"idle", "done", "panicked"}

\* This step is the assignment to the slot made by thread t.
TakesEffect(t) == threads[t].pc = "write" /\ threads'[t].pc # "write"

(* C21: the assignment of reset() or finish() never changes the slot       *)
(* while another thread is between the start and the return of an          *)
(* enqueue, update_ledger, commit_chunk, replay or commit call, and no     *)
(* store write happens while another thread is inside reset().             *)
C21_SlotStableDuringCalls ==
    [][\A t, u \in Threads :
           t # u =>
               /\ (TakesEffect(t) /\ inner' # inner) => ~InCall(u)
               /\ (db' # db /\ threads'[u] # threads[u]) => ~InReset(t)]_vars

(* C30: a pipeline or replay operation that finds no inner instance is     *)
(* the only one to create it: its lazy initialization never replaces an    *)
(* instance that exists, and an operation that made its initialization     *)
(* check never aborts because the instance is missing.                     *)
C30_LazyInitializationOnce ==
    [][\A t \in Threads :
           threads[t].op \in Initializing =>
               /\ TakesEffect(t) => inner = None
               /\ threads[t].pc = "read" => threads'[t].pc # "panicked"]_vars

(* ----------------------- claims about errors --------------------------- *)

(* C22: no pipeline or replay operation aborts its thread: every call      *)
(* returns, with success or with an error result.                          *)
C22_ErrorsAreResults == last.op \in FacadeOps => last.res # "panic"

(* ------------------ claims about the two stages ------------------------ *)

\* The transactions of the chunks and records the two stages hold.
StagedTxns(q) ==
    {x \in 0..(MaxVersion + 1) :
        \E stage \in {q.to_update_ledger, q.to_commit} :
        \E i \in 1..Len(stage) :
            stage[i] # None /\ InSeq(x, stage[i][1].to_commit)}

(* C23: a successful update_ledger() takes the oldest stage-one record and *)
(* appends, at the tail of stage two, the chunk finalized from it against  *)
(* the accumulator the previously finalized chunk left, and changes        *)
(* nothing else; a successful commit returns the chunk at the head of      *)
(* stage two, after which neither stage holds it.                          *)
C23_UpdateLedgerMovesOneChunk ==
    [][/\ (last'.op = "update_ledger" /\ last'.res = "ok") =>
           LET q == inner[1]
               after == inner'[1]
               record == Head(q.to_update_ledger)[1]
               pushed == after.to_commit[Len(after.to_commit)][1]
           IN  /\ q.to_update_ledger # <<>> /\ Head(q.to_update_ledger) # None
               /\ after.to_update_ledger = Tail(q.to_update_ledger)
               /\ Len(after.to_commit) = Len(q.to_commit) + 1
               /\ SubSeq(after.to_commit, 1, Len(q.to_commit)) = q.to_commit
               /\ pushed.to_commit = record.to_commit
               /\ pushed.result_state = record.result_state
               /\ first_version_of(pushed) = q.latest_txn_accumulator
               /\ pushed.transaction_accumulator =
                      q.latest_txn_accumulator + Len(record.to_commit)
               /\ after.latest_txn_accumulator = pushed.transaction_accumulator
               /\ after.latest_state = q.latest_state
               /\ after.persisted_state = q.persisted_state
               /\ db' = db
       /\ (last'.op \in Commits /\ last'.res = "ok") =>
           LET q == inner[1]
               after == inner'[1]
           IN  /\ q.to_commit # <<>> /\ Head(q.to_commit) # None
               /\ last'.ret = Some(Head(q.to_commit)[1].to_commit)
               /\ after.to_commit = Tail(q.to_commit)
               /\ after.to_update_ledger = q.to_update_ledger
               /\ \A i \in 1..Len(last'.ret[1]) :
                      last'.ret[1][i] \notin StagedTxns(after)]_vars

\* update_ledger appended a second chunk behind one that awaits its commit.
C23_Witness ==
    /\ last.op = "update_ledger" /\ last.res = "ok"
    /\ Len(inner[1].to_commit) = 2
    /\ inner[1].to_commit[1] # None
    /\ first_version_of(inner[1].to_commit[2][1]) =
           inner[1].to_commit[1][1].result_state

(* What update_ledger requires of the record it took, with the            *)
(* accumulator it was given: the proof extends the accumulator with no     *)
(* overlap, nothing is discarded or retried, the infos match the proof.    *)
PassesLedgerUpdate(record, parent_accumulator) ==
    LET v == verify_extends_ledger(record.txn_infos_with_proof,
                                   parent_accumulator, parent_accumulator)
    IN  /\ v.res = "ok" /\ v.num_overlap = 0
        /\ record.txn_infos_with_proof.first_version = parent_accumulator
        /\ ~record.txn_infos_with_proof.fork
        /\ record.to_discard = 0
        /\ record.to_retry = 0
        /\ ~record.txn_infos_with_proof.mismatch

(* C24: update_ledger changes stage two only for a record whose proof      *)
(* extends the parent accumulator with zero overlap, whose finalization    *)
(* discards and retries nothing and whose infos equal those of the proof;  *)
(* for any other record it fails and stage two and the store stay as they  *)
(* were.                                                                   *)
C24_OnlyVerifiedChunksReachStageTwo ==
    [][(last'.op = "update_ledger" /\ inner # None
        /\ Held(inner[1].to_update_ledger) # <<>>
        /\ Head(inner[1].to_update_ledger) # None) =>
          LET q == inner[1]
              record == Head(q.to_update_ledger)[1]
              passes == PassesLedgerUpdate(record, q.latest_txn_accumulator)
          IN  /\ inner'[1].to_commit # q.to_commit => passes
              /\ last'.res = "ok" => passes
              /\ ~passes => /\ last'.res # "ok"
                            /\ inner'[1].to_commit = q.to_commit
                            /\ db' = db]_vars

(* update_ledger refused a record whose infos differ from the proof's      *)
(* while stage two holds a chunk.                                          *)
C24_Witness ==
    /\ last.op = "update_ledger"
    /\ last.res \in {"transaction infos do not match", "Unexpected discard.",
                     "Unexpected retry.", "Fork happens"}
    /\ Len(inner[1].to_commit) = 1

(* The executed chunks that can stand at the head of stage two of a queue  *)
(* that holds nothing else: with or without a transaction, with or without *)
(* a ledger info.                                                          *)
ExecutedChunks(q) ==
    {[result_state |-> q.persisted_state + n,
      ledger_info |-> li,
      to_commit |-> Txns(q.persisted_state, n),
      transaction_accumulator |-> q.latest_txn_accumulator + n] :
        n \in 0..1, li \in BOOLEAN}

(* C25: commit_chunk reaches the fail point and the store write if and     *)
(* only if the chunk has a transaction to commit or a ledger info; for a   *)
(* chunk with neither the store is untouched, and the chunk is removed     *)
(* from stage two and the committed watermark set to its result state all  *)
(* the same.                                                               *)
C25_WritesOnlyWhatIsThere ==
    (/\ last = Idle /\ inner # None
     /\ Staged(inner[1]) = 0
     /\ inner[1].persisted_state = Len(db)) =>
        \A chunk \in ExecutedChunks(inner[1]), store_ok \in BOOLEAN :
            LET staged == enqueue_chunk_to_commit_directly(inner[1], chunk).q
                r == commit_chunk(Some(staged), db, store_ok)
                writes == chunk.ledger_info \/ chunk.to_commit # <<>>
            IN  /\ (writes /\ ~store_ok) =>
                       /\ r.res = "Injected error in commit_chunk"
                       /\ r.db = db
                /\ (writes /\ store_ok) =>
                       /\ r.res = "ok"
                       /\ r.db = db \o chunk.to_commit
                /\ ~writes => r.res = "ok" /\ r.db = db
                /\ r.res = "ok" =>
                       /\ r.inner[1].to_commit = <<>>
                       /\ r.inner[1].persisted_state = chunk.result_state

\* A commit_chunk wrote the only staged chunk, which carried a ledger info.
C25_Witness ==
    /\ last.op = "commit_chunk" /\ last.res = "ok"
    /\ last.ret[1] # <<>>
    /\ Staged(inner[1]) = 0
    /\ inner[1].persisted_state = Len(db)
    /\ Len(db) = TargetVersion + 1

(* ------------------ claims about the steps of replay ------------------- *)

\* The versions of the replay on record that carry a reconfiguration event.
Reconfigurations(t) ==
    {v \in ReplayedVersions(t) : item_at(t, v).reconfig}

(* C26: the epochs of a replay of [begin, end) are non-empty ranges, each  *)
(* starting where the one before ends, the first at begin and the last     *)
(* ending at end; every version with a reconfiguration event is the last   *)
(* of its epoch and every epoch but the last ends with such a version; an  *)
(* empty input has no epoch.                                               *)
C26_EpochsPartitionTheInput ==
    Traced =>
        LET t == last.ret[1]
            begin == t.chunk_begin
            end == t.chunk_begin + Len(t.items)
            n == Len(t.epochs)
        IN  /\ (begin = end) <=> (n = 0)
            /\ n > 0 => t.epochs[1][1] = begin /\ t.epochs[n][2] = end
            /\ \A i \in 1..n : t.epochs[i][1] < t.epochs[i][2]
            /\ \A i \in 1..(n - 1) : t.epochs[i][2] = t.epochs[i + 1][1]
            /\ \A v \in Reconfigurations(t) :
                   \E i \in 1..n : t.epochs[i][2] = v + 1
            /\ \A i \in 1..(n - 1) :
                   t.epochs[i][2] - 1 \in Reconfigurations(t)

(* Three versions replayed, the first and the last with a reconfiguration  *)
(* event: two epochs and no empty one after the last.                      *)
C26_Witness ==
    /\ Traced
    /\ Len(last.ret[1].items) = 3
    /\ Reconfigurations(last.ret[1]) =
           {last.ret[1].chunk_begin, last.ret[1].chunk_begin + 2}
    /\ Len(last.ret[1].epochs) = 2

\* The ends of the epochs of the replay on record.
EpochEnds(t) == {t.epochs[i][2] : i \in 1..Len(t.epochs)}

C28_BatchLoopTerminates ==
    Traced =>
        LET t == last.ret[1]
            end == t.chunk_begin + Len(t.items)
        IN  /\ t.res \in {"ok", "does not match"}
            /\ Len(t.applied) <= Len(t.items)
            /\ \A i \in 1..Len(t.applied) :
                   /\ t.applied[i][1] < t.applied[i][2]
                   /\ t.applied[i][2] <= end
                   /\ t.applied[i][1] \in Skipped(t) =>
                          t.applied[i][2] = t.applied[i][1] + 1
            /\ \A i \in 1..Len(t.verified) :
                   /\ t.verified[i][1] < t.verified[i][2]
                   /\ t.verified[i][2] <= end
                   /\ \A j \in 1..Len(t.applied) :
                          t.applied[j][1] = t.verified[i][1] =>
                              t.applied[j][2] <= t.verified[i][2]
            /\ t.res = "ok" => Len(t.rest) = 0

(* A lazy replay of three versions with the first two to skip and a        *)
(* mismatch at the third.                                                  *)
C28_Witness ==
    /\ Traced /\ last.res = "ok"
    /\ Len(last.ret[1].items) = 3
    /\ Skipped(last.ret[1]) =
           {last.ret[1].chunk_begin, last.ret[1].chunk_begin + 1}
    /\ last.ret[1].marked = <<last.ret[1].chunk_begin + 2>>

(* ------------------ claims about concurrent commits -------------------- *)

\* The threads that have taken a chunk to commit and not yet dequeued it.
Committing ==
    {t \in Threads : threads[t].pc \in {"save_transactions",
                                        "dequeue_committed"}}

(* C29: with commits called by two threads, at most one thread at a time   *)
(* has a chunk taken for commit; that chunk starts at the next version of  *)
(* the store, which is the persisted state it was taken with, until it is  *)
(* written; a write appends the chunk's transactions, none of which the    *)
(* store holds already, in ascending version order; the committed          *)
(* watermark never decreases.                                              *)
C29_ConcurrentCommitsInOrder ==
    [][/\ Cardinality(Committing) <= 1
       /\ \A t \in Threads :
              threads[t].pc = "save_transactions" =>
                  /\ threads[t].parent = Len(db)
                  /\ first_version_of(threads[t].chunk[1]) = Len(db)
                  /\ threads[t].parent = inner[1].persisted_state
       /\ db' # db =>
              \E t \in Threads :
                  LET txns == threads[t].chunk[1].to_commit IN
                  /\ threads[t].pc = "save_transactions"
                  /\ threads'[t].pc = "dequeue_committed"
                  /\ db' = db \o txns
                  /\ \A i \in 1..Len(txns) :
                         /\ txns[i] = Len(db) + i - 1
                         /\ ~InSeq(txns[i], db)
       /\ inner'[1].persisted_state >= inner[1].persisted_state]_vars

(* One thread has taken the second chunk for commit, after the first was   *)
(* persisted, and the other thread's commit_chunk found the head taken.    *)
C29_Witness ==
    /\ \E t, u \in Threads :
           /\ threads[t].pc = "dequeue_committed"
           /\ threads[u].pc = "done"
           /\ threads[u].op = "commit_chunk"
           /\ threads[u].res =
                  "Next chunk to commit has already been processed."
    /\ Len(db) = 3
    /\ inner[1].persisted_state = 2

(* --------------- claims about concurrent ledger updates ---------------- *)

\* The threads that have taken a record of stage one and not yet saved it.
UpdatingLedger ==
    {t \in Threads : threads[t].pc \in {"calculate_ledger_update",
                                        "save_ledger_update_output"}}

(* C31: with update_ledger called by two threads while stage one holds     *)
(* chunks, at most one thread at a time has a record taken; the            *)
(* accumulator it was handed is the latest one the queue holds, the one    *)
(* the save of the predecessor left, until its own result is saved; the    *)
(* record taken is the oldest of stage one, and a save moves it to the     *)
(* back of stage two, built on that accumulator, and leaves the            *)
(* accumulator its transactions extend it to.                              *)
C31_ConcurrentLedgerUpdatesInOrder ==
    [][/\ Cardinality(UpdatingLedger) <= 1
       /\ \A t \in UpdatingLedger :
              /\ threads[t].parent = inner[1].latest_txn_accumulator
              /\ inner[1].to_update_ledger # <<>>
              /\ Head(inner[1].to_update_ledger) = None
       /\ \A t \in Threads :
              (threads'[t].pc = "calculate_ledger_update"
                   /\ threads[t].pc # "calculate_ledger_update") =>
                  /\ threads'[t].chunk = Head(inner[1].to_update_ledger)
                  /\ Held(inner'[1].to_update_ledger) =
                         Tail(Held(inner[1].to_update_ledger))
                  /\ inner'[1].to_commit = inner[1].to_commit
       /\ inner'[1].to_commit # inner[1].to_commit
              /\ Len(inner'[1].to_commit) > Len(inner[1].to_commit) =>
              \E t \in Threads :
                  LET chunk == threads[t].chunk[1] IN
                  /\ threads[t].pc = "save_ledger_update_output"
                  /\ chunk.transaction_accumulator =
                         inner[1].latest_txn_accumulator + Len(chunk.to_commit)
                  /\ inner'[1].to_commit =
                         Append(inner[1].to_commit, Some(chunk))
                  /\ inner'[1].to_update_ledger =
                         Tail(inner[1].to_update_ledger)
                  /\ inner'[1].latest_txn_accumulator =
                         chunk.transaction_accumulator]_vars

(* Stage one held two chunks; the first is in stage two, one thread has    *)
(* finalized the second against the accumulator the first left, and the    *)
(* other thread's update_ledger found the head taken.                      *)
C31_Witness ==
    \E t, u \in Threads :
        /\ threads[t].pc = "save_ledger_update_output"
        /\ threads[t].parent = 2
        /\ threads[t].chunk[1].transaction_accumulator = 3
        /\ Len(inner[1].to_commit) = 1
        /\ threads[u].pc = "done"
        /\ threads[u].op = "update_ledger"
        /\ threads[u].res =
               "Next chunk to update ledger has already been processed."

(* -------------------- claims about the gas profiler -------------------- *)

\* The step is a call fn(arg) on the profiler that returned.
ChargeReturned ==
    /\ profiler # None
    /\ profiler' # None
    /\ profiler' # profiler
    /\ observed'.res # "panic"

\* The step is a call on the profiler, returned or not.
ChargeStep ==
    /\ profiler # None
    /\ profiler' # None
    /\ profiler' # profiler

\* The event recorded last in the active frame.
LastEvent(p) == Top(Top(p.frames).events)

RECURSIVE EventsCost(_)
(* The costs of the Bytecode, CallNative and LoadResource events among     *)
(* events, those of the frames folded into Call events included.           *)
EventsCost(events) ==
    IF events = <<>> THEN 0
    ELSE LET e == Head(events)
         IN  (CASE e.type = "Call" -> EventsCost(e.frame.events)
                [] e.type = "Loc" -> 0
                [] OTHER -> e.cost)
             + EventsCost(Tail(events))

RECURSIVE EventsCount(_)
\* The events among events that are not Call events, folded frames included.
EventsCount(events) ==
    IF events = <<>> THEN 0
    ELSE LET e == Head(events)
         IN  (IF e.type = "Call" THEN EventsCount(e.frame.events) ELSE 1)
             + EventsCount(Tail(events))

RECURSIVE FramesCost(_)
FramesCost(frames) ==
    IF frames = <<>> THEN 0
    ELSE EventsCost(Head(frames).events) + FramesCost(Tail(frames))

RECURSIVE FramesCount(_)
FramesCount(frames) ==
    IF frames = <<>> THEN 0
    ELSE EventsCount(Head(frames).events) + FramesCount(Tail(frames))

RECURSIVE WritesCost(_)
WritesCost(writes) ==
    IF writes = <<>> THEN 0
    ELSE Head(writes).cost + WritesCost(Tail(writes))

\* The costs of everything the profiler holds a record of, intrinsic apart.
Recorded(p) == FramesCost(p.frames) + WritesCost(p.write_set_transient)

\* The calls that record an event, and how many events each records.
Recording ==
    BytecodeCharges \cup
    {"charge_native_function", "charge_br_false", "charge_br_true",
     "charge_branch", "charge_simple_instr", "charge_call",
     "charge_call_generic", "charge_load_resource"}

EventsOf(fn, arg) ==
    IF fn \notin Recording THEN 0
    ELSE IF fn = "charge_branch" THEN 2
    ELSE IF fn \in {"charge_br_false", "charge_br_true"}
              /\ arg.target_offset # None
    THEN 2
    ELSE 1

\* The calls whose cost goes into total_exec_io.
Totalled ==
    Recording \cup {"charge_io_gas_for_write",
                    "charge_io_gas_for_group_write",
                    "charge_intrinsic_gas_for_transaction"}

(* C32: the profiler is transparent to the base meter: every call on it    *)
(* reaches the base meter once, as the last call the base received, with   *)
(* the function and arguments it was made with; the profiler returns what  *)
(* the base meter returned, an error included; the base meter is left as   *)
(* a meter without profiler is left by the same calls; the cost the        *)
(* profiler takes down for the call is the drop of the base balance.       *)
C32_ProfilerIsTransparent ==
    [][ChargeStep =>
          LET p == profiler[1]
              q == profiler'[1]
              fn == observed'.fn
              arg == observed'.arg
              b == base_charge(p.base, fn, arg)
          IN  /\ q.base.received = Append(p.base.received, <<fn, arg>>)
              /\ observed'.res = b.res
              /\ observed'.res = observed'.bare_res
              /\ q.base = observed'.bare
              /\ fn \in Totalled =>
                     q.total_exec_io + q.base.balance =
                         p.total_exec_io + p.base.balance
              /\ fn = "charge_intrinsic_gas_for_transaction" =>
                     /\ q.intrinsic_cost # None
                     /\ q.intrinsic_cost[1] + q.base.balance = p.base.balance
              /\ fn = "charge_native_function" =>
                     /\ LastEvent(q).type = "CallNative"
                     /\ LastEvent(q).cost + q.base.balance = p.base.balance
              /\ fn \in {"charge_io_gas_for_write",
                         "charge_io_gas_for_group_write"} =>
                     Top(q.write_set_transient).cost + q.base.balance =
                         p.base.balance]_vars

(* C33: total_exec_io is the costs of all the events recorded, in every    *)
(* frame and in the frames folded into their callers, plus the costs of    *)
(* the transient writes, plus every intrinsic charge: it starts at zero    *)
(* with nothing recorded, a call that returns adds its cost both to the    *)
(* total and to what is recorded (an intrinsic charge to the total only),  *)
(* and the events a call finds recorded are still recorded after it, with  *)
(* the events it records itself added. finish reports the total and, as    *)
(* call graph, the root frame holding every event recorded, once.          *)
C33_TotalIsSumOfRecorded ==
    [][/\ (profiler # None /\ observed.fn = "new") =>
              /\ profiler[1].total_exec_io = 0
              /\ Recorded(profiler[1]) = 0
       /\ ChargeReturned =>
              LET p == profiler[1]
                  q == profiler'[1]
                  fn == observed'.fn
                  cost == IF fn = "charge_intrinsic_gas_for_transaction"
                          THEN 0 ELSE 1
              IN  /\ fn = "charge_intrinsic_gas_for_transaction" =>
                         /\ Recorded(q) = Recorded(p)
                         /\ q.total_exec_io + q.base.balance =
                                p.total_exec_io + p.base.balance
                  /\ fn # "charge_intrinsic_gas_for_transaction" =>
                         q.total_exec_io + Recorded(p) =
                             p.total_exec_io + Recorded(q)
                  /\ FramesCount(q.frames) =
                         FramesCount(p.frames) + EventsOf(fn, observed'.arg)
       /\ (profiler # None /\ profiler' = None) =>
              LET p == profiler[1]
                  log == observed'.log
              IN  /\ log # None
                  /\ log[1].exec_io.total = p.total_exec_io
                  /\ log[1].exec_io.call_graph.name = p.frames[1].name
                  /\ EventsCost(log[1].exec_io.call_graph.events) =
                         FramesCost(p.frames)
                  /\ EventsCount(log[1].exec_io.call_graph.events) =
                         FramesCount(p.frames)
                  /\ log[1].exec_io.write_set_transient =
                         p.write_set_transient]_vars

\* frames begins with the root frame root, with events added to it or not.
RootStays(root, frames) ==
    /\ frames # <<>>
    /\ frames[1].name = root.name
    /\ Len(frames[1].events) >= Len(root.events)
    /\ SubSeq(frames[1].events, 1, Len(root.events)) = root.events

(* C34: the frame stack is never empty and its bottom element is the root  *)
(* frame of the constructor: charge_call and charge_call_generic push one  *)
(* frame; Ret pops the top frame into a Call event of its caller when      *)
(* more than one frame is on the stack and pops nothing otherwise;         *)
(* charge_native_function pops the top frame, one pushed by a call         *)
(* charge, and records it as a CallNative event in the frame below it;     *)
(* no other call changes the number of frames.                             *)
C34_RootFrameStays ==
    [][ChargeStep =>
          LET p == profiler[1]
              q == profiler'[1]
              fn == observed'.fn
              arg == observed'.arg
          IN  /\ RootStays(p.frames[1], q.frames)
              /\ fn \in {"charge_call", "charge_call_generic"} =>
                     /\ Len(q.frames) = Len(p.frames) + 1
                     /\ Top(q.frames).events = <<>>
              /\ (fn = "charge_simple_instr" /\ arg.instr = "Ret"
                      /\ Len(p.frames) > 1) =>
                     /\ Len(q.frames) + 1 = Len(p.frames)
                     /\ LastEvent(q).type = "Call"
                     /\ LastEvent(q).frame.name = Top(p.frames).name
              /\ (fn = "charge_simple_instr" /\ arg.instr = "Ret"
                      /\ Len(p.frames) = 1) =>
                     Len(q.frames) = 1
              /\ fn = "charge_native_function" =>
                     /\ Len(p.frames) > 1
                     /\ Len(q.frames) + 1 = Len(p.frames)
                     /\ LastEvent(q).type = "CallNative"
                     /\ LastEvent(q).name = Top(p.frames).name
              /\ (fn \notin {"charge_call", "charge_call_generic",
                             "charge_native_function"}
                      /\ ~(fn = "charge_simple_instr"
                               /\ arg.instr = "Ret")) =>
                     Len(q.frames) = Len(p.frames)]_vars

\* The opcode of the instruction variant a charge is made for.
instruction(fn, arg) ==
    CASE fn = "charge_borrow_global" ->
             IF arg.is_mut
             THEN (IF arg.is_generic THEN "MUT_BORROW_GLOBAL_GENERIC"
                   ELSE "MUT_BORROW_GLOBAL")
             ELSE (IF arg.is_generic THEN "IMM_BORROW_GLOBAL_GENERIC"
                   ELSE "IMM_BORROW_GLOBAL")
      [] fn = "charge_exists" ->
             IF arg.is_generic THEN "EXISTS_GENERIC" ELSE "EXISTS"
      [] fn = "charge_move_from" ->
             IF arg.is_generic THEN "MOVE_FROM_GENERIC" ELSE "MOVE_FROM"
      [] fn = "charge_move_to" ->
             IF arg.is_generic THEN "MOVE_TO_GENERIC" ELSE "MOVE_TO"
      [] fn = "charge_vec_borrow" ->
             IF arg.is_mut THEN "VEC_MUT_BORROW" ELSE "VEC_IMM_BORROW"

(* C35: the opcode of the Bytecode event a charge records names the        *)
(* instruction variant charged: the generic opcode of charge_exists,       *)
(* charge_move_from, charge_move_to and charge_borrow_global exactly when  *)
(* is_generic is true, the mutable-borrow opcode of charge_vec_borrow and  *)
(* charge_borrow_global exactly when is_mut is true.                       *)
C35_OpcodeNamesTheInstruction ==
    [][(ChargeReturned
            /\ observed'.fn \in {"charge_borrow_global", "charge_exists",
                                 "charge_move_from", "charge_move_to",
                                 "charge_vec_borrow"}) =>
          /\ LastEvent(profiler'[1]).type = "Bytecode"
          /\ LastEvent(profiler'[1]).op =
                 instruction(observed'.fn, observed'.arg)]_vars

====
